---- MODULE Spec2Model ----
(***************************************************************************)
(* The scheduled ingestion pipeline of the repository:                     *)
(*   backend/app.py                         orchestrator and scheduler      *)
(*   datasetconversion/scripts/etl.py       extractor and consolidator      *)
(*   datasetconversion/scripts/db_conversion.py   loader                    *)
(* A job runs inspect -> ETL -> delay -> DB load -> raw cleanup.  One job   *)
(* is run on the main thread at startup; an interval timer starts further   *)
(* jobs on the threads of the scheduler's pool.                             *)
(***************************************************************************)
EXTENDS Integers, Sequences, FiniteSets, TLC

\* ------------------------------------------------------------------ bounds
\* Jobs the timer starts.
MaxTimerJobs == 1
\* Jobs the timer starts in the runs that follow the scheduler alone.
MaxFires == 3
\* Timer fires that are dropped while one instance runs.
MaxSkipped == 2
\* Files the downloader adds to the raw directory while the scheduler runs.
MaxDownloads == 1
\* Threads of the scheduler's pool that are modelled.
PoolSize == 2
\* Length of the N_PROF dimension of the file one run of etl.py is followed on.
MaxProfDim == 2
\* Length of its N_LEVELS dimension.
MaxLevels == 2
\* Intents that analyze_user_intent detects in one message.
MaxIntents == 2

\* Runs of db_conversion.py followed one after the other.
MaxLoaderRuns == 2
\* Measurement variables of that file that do not have the (N_PROF, N_LEVELS)
\* shape.
MaxOddShaped == 1

\* ------------------------------------------------------- program constants
\* An executor that lets every pool thread run the job at once.
max_instances_unlimited == PoolSize

\* scheduler.add_job(..., max_instances=1, coalesce=True, ...)
max_instances == 1

\* A job whose missed run times are all handed to the executor.
coalesce_off == FALSE

\* scheduler.add_job(..., coalesce=True, ...)
coalesce == TRUE

\* scheduler.add_job(..., misfire_grace_time=300, ...), in seconds.
misfire_grace_time == 300

\* --interval-minutes 1 and the default 60, in seconds.
Intervals == {60, 3600}

\* Seconds by which the scheduler thread gets to a wake-up after the job's
\* next_run_time (0: on time; more when the process was unresponsive).
Lateness == {0, 60, 299, 300, 301, 3900}

\* Seconds between the scheduler thread's wake-up and the moment the pool
\* thread compares the run time with the clock.
PoolDelays == {0, 1}

\* --------------------------------------------------------------- raw files
\* sorted(list(input_dir.glob('*.nc'))): the candidate names in sorted order.
SortedFiles == <<"A.nc", "B.nc", "C.nc">>

Files == {SortedFiles[i] : i \in 1..Len(SortedFiles)}

\* The length of the PRES array of each profile of a file (ds.variables).
Profiles(f) ==
    CASE f = "A.nc" -> <<3, 2>>
      [] f = "B.nc" -> <<4>>
      [] OTHER      -> <<1>>

\* n_prof = ds.variables['JULD'].shape[0]
n_prof(f) == Len(Profiles(f))

\* ----------------------------------------------------------------- threads
MainThread == 0

Workers == 1..PoolSize

Procs == {MainThread} \cup Workers

VARIABLES
    raw,               \* names of the *.nc files in data/rawNETCDF
    consolidated_csv,  \* argo_profiles_consolidated.csv: exists, header lines, rows
    db,                \* rows of table profiles, in id order
    nDownloads,        \* files the downloader has written
    pc,                \* per thread: "boot", "idle" or the stage in flight
    job,               \* per thread: the current (or last) job's record
    errors_log,        \* number of lines of logs/errors.log
    schedOn,           \* scheduler.start() was called
    skipped,           \* timer fires dropped during the instance now running
    timerJobs,         \* timer fires that submitted a job to the pool
    base,              \* the stores as the last quiescent successful job left them
    ds,                \* the NetCDF file one run of etl.py is followed through
    etl_proc,          \* per followed run of etl.py: position, counters, log lines
    db_proc,           \* the followed run of db_conversion.py and its transaction
    timer,             \* the interval trigger's job as the scheduler thread keeps it
    process,           \* the orchestrator process: "up", "exiting" or "exited"
    sweep,             \* the followed cleanup step: files left to unlink, log lines
    qs,                \* the query-serving component: its last call and result
    persisted          \* per thread: the rows the stores held when its job started

vars == <<raw, consolidated_csv, db, nDownloads, pc, job,
          errors_log, schedOn, skipped, timerJobs, base, ds, etl_proc, db_proc,
          timer, process, sweep, qs, persisted>>

\* The state of the subprocess runs that are followed statement by statement.
inside == <<ds, etl_proc, db_proc>>

\* The state of what is followed apart from the pipeline's stores and jobs.
apart == <<timer, process, sweep, qs, persisted>>

\* The same without the interval trigger's job.
beside == <<process, sweep, qs, persisted>>

\* The cleanup step, the query-serving component and the rows at job start.
followed == <<sweep, qs, persisted>>

\* ------------------------------------------------------------------ helpers
Row(f, p, l) == [SOURCE_FILE |-> f, N_PROF |-> p, N_LEVELS |-> l]

\* set(df['SOURCE_FILE'].unique()) / SELECT DISTINCT SOURCE_FILE
Sources(rows) == {rows[i].SOURCE_FILE : i \in 1..Len(rows)}

CountSrc(rows, f) == Cardinality({i \in 1..Len(rows) : rows[i].SOURCE_FILE = f})

RowSet(rows) == {rows[i] : i \in 1..Len(rows)}

\* The rows a complete extraction of f yields.
ExpectedRows(f) ==
    UNION {{Row(f, p, l) : l \in 0..(Profiles(f)[p + 1] - 1)} : p \in 0..(n_prof(f) - 1)}

\* ------------------------------------------------------------------ etl.py
\* Level indices counted from 1.
transform_data_from_one(f, profile_idx) ==
    [l \in 1..Profiles(f)[profile_idx + 1] |-> Row(f, profile_idx, l)]

\* extract_profile + transform_data: one row per level of the pressure array,
\* N_PROF = profile_idx, N_LEVELS = 0..n_levels-1; main stamps SOURCE_FILE.
transform_data(f, profile_idx) ==
    [l \in 1..Profiles(f)[profile_idx + 1] |-> Row(f, profile_idx, l - 1)]

\* A write that never appends: the file is created anew each time.
to_csv_truncating(df, csv, append) == [exists |-> TRUE, header |-> 1, rows |-> df]

\* A to_csv whose append keeps pandas' default header=True.
to_csv_with_header(df, csv, append) ==
    IF append
    THEN [csv EXCEPT !.exists = TRUE, !.header = @ + 1, !.rows = csv.rows \o df]
    ELSE [exists |-> TRUE, header |-> 1, rows |-> df]

\* df.to_csv(output_path, mode='a', header=False) when append holds, else
\* df.to_csv(output_path): the file is created, or truncated, and gets a
\* header line.
to_csv(df, csv, append) ==
    IF append
    THEN [csv EXCEPT !.exists = TRUE, !.rows = csv.rows \o df]
    ELSE [exists |-> TRUE, header |-> 1, rows |-> df]

\* save_to_csv(df, output_path, append_mode=True): nothing for an empty frame;
\* append without header when the file exists, else create it with a header.
save_to_csv(df, csv) ==
    IF df = <<>> THEN csv
    ELSE to_csv(df, csv, csv.exists)

\* The sets of profile indices of f for which extract_profile may return
\* None.  The pipeline runs explore files whose profiles can all be read.
NoDataSets(f) == {{}}

\* What may happen to one file: raise_at is the profile index at which an
\* exception leaves the file's try block (0 also stands for a failed open,
\* n_prof(f) for no exception); no_data are the profile indices for which
\* extract_profile returns None.
FileOutcomes(f) ==
    [raise_at : 0..n_prof(f), no_data : NoDataSets(f)]

\* Every assignment of an outcome to each file of S.
RECURSIVE OutcomeMaps(_)
OutcomeMaps(S) ==
    IF S = {} THEN {<<>>}
    ELSE LET f == CHOOSE x \in S : TRUE
         IN  {(f :> o) @@ m : o \in FileOutcomes(f), m \in OutcomeMaps(S \ {f})}

Clean(f, o) == o.raise_at = n_prof(f) /\ o.no_data = {}

\* for profile_idx in range(n_prof): ... inside the per-file try
RECURSIVE ProfileLoop(_, _, _, _)
ProfileLoop(f, profile_idx, o, csv) ==
    IF profile_idx >= n_prof(f) \/ profile_idx = o.raise_at THEN csv
    ELSE ProfileLoop(f, profile_idx + 1, o,
            IF profile_idx \in o.no_data THEN csv
            ELSE save_to_csv(transform_data(f, profile_idx), csv))

\* The candidate list taken whole, without the processed_files filter.
new_files_unfiltered(candidates, processed) == candidates

\* new_files = [f for f in netcdf_files if f.name not in processed_files]
new_files(candidates, processed) ==
    SelectSeq(candidates, LAMBDA f : f \notin processed)

\* The file loop without its per-file try/except: the first exception ends it.
RECURSIVE FileLoopAbort(_, _, _)
FileLoopAbort(todo, out, csv) ==
    IF todo = <<>> THEN csv
    ELSE LET f == Head(todo)
         IN  IF out[f].raise_at < n_prof(f)
             THEN ProfileLoop(f, 0, out[f], csv)
             ELSE FileLoopAbort(Tail(todo), out, ProfileLoop(f, 0, out[f], csv))

\* for file_path in new_files: try: ... except Exception: logging.error(...)
RECURSIVE FileLoop(_, _, _)
FileLoop(todo, out, csv) ==
    IF todo = <<>> THEN csv
    ELSE FileLoop(Tail(todo), out, ProfileLoop(Head(todo), 0, out[Head(todo)], csv))

\* A set of processed files that has only the files all of whose rows are in
\* the accumulation.
processed_files_if_complete(csv) ==
    IF csv.exists
    THEN {f \in Sources(csv.rows) :
            CountSrc(csv.rows, f) >= Cardinality(ExpectedRows(f))}
    ELSE {}

\* processed_files: empty unless the accumulation exists.
processed_files(csv) == IF csv.exists THEN Sources(csv.rows) ELSE {}

\* netcdf_files = sorted(list(input_dir.glob('*.nc')))
netcdf_files(dir) == SelectSeq(SortedFiles, LAMBDA f : f \in dir)

SeqSet(s) == {s[i] : i \in 1..Len(s)}

\* A file whose extraction raised nothing.
CleanOutcome(f) == [raise_at |-> n_prof(f), no_data |-> {}]

\* The accumulation after the files of S were consolidated into csv.
Consolidated(S, csv) ==
    FileLoop(netcdf_files(S), [f \in S |-> CleanOutcome(f)], csv)

\* ------------------------------------------- etl.py on one file, in detail
\* The file whose contents are explored.
XFile == "X.nc"

\* for var in ['PRES', 'TEMP', 'PSAL', 'PRES_ADJUSTED', ...]: the six per-level
\* variables in the order both loops of etl.py go through them.
LevelVars ==
    <<"PRES", "TEMP", "PSAL", "PRES_ADJUSTED", "TEMP_ADJUSTED", "PSAL_ADJUSTED">>

LevelVarSet == SeqSet(LevelVars)

\* How a variable can be laid out over the file's dimensions: not in
\* ds.variables; "PL" (N_PROF, N_LEVELS), the layout of an Argo profile file;
\* "L" (N_LEVELS,), one dimension; "LP" (N_LEVELS, N_PROF), transposed.
Layouts == {"absent", "PL", "L", "LP"}

\* The files explored: JULD, when in the file, has the N_PROF dimension
\* (LATITUDE and LONGITUDE are read as JULD is and are taken to go with it).
Datasets ==
    {d \in [JULD : BOOLEAN, N_PROF : 1..MaxProfDim, N_LEVELS : 0..MaxLevels,
            vars : [LevelVarSet -> Layouts]] :
        Cardinality({v \in LevelVarSet : d.vars[v] \in {"L", "LP"}}) <= MaxOddShaped}

NoDataset ==
    [JULD |-> FALSE, N_PROF |-> 0, N_LEVELS |-> 0,
     vars |-> [v \in LevelVarSet |-> "absent"]]

\* ds.variables[var].shape
shape(d, var) ==
    CASE d.vars[var] = "PL" -> <<d.N_PROF, d.N_LEVELS>>
      [] d.vars[var] = "L"  -> <<d.N_LEVELS>>
      [] d.vars[var] = "LP" -> <<d.N_LEVELS, d.N_PROF>>
      [] OTHER              -> <<>>

\* The fallback of main: the leading dimension of the first variable, from
\* position i of the list on, that is in the file with two dimensions or
\* more; n_prof keeps its 0 when there is none.
RECURSIVE first_2d(_, _)
first_2d(d, i) ==
    IF i > Len(LevelVars) THEN 0
    ELSE IF d.vars[LevelVars[i]] # "absent" /\ Len(shape(d, LevelVars[i])) >= 2
         THEN shape(d, LevelVars[i])[1]
         ELSE first_2d(d, i + 1)

\* n_prof as main determines it: JULD's shape[0], else the fallback.
detect_n_prof(d) == IF d.JULD THEN d.N_PROF ELSE first_2d(d, 1)

\* What extract_profile returns when its try block raised.
None == [ok |-> FALSE, len |-> [v \in LevelVarSet |-> 0], N_PROF |-> <<>>, N_LEVELS |-> <<>>]

\* ds.variables[var][profile_idx, :] raises IndexError: var has fewer than two
\* dimensions or profile_idx is beyond its leading one.
IndexError(d, var, profile_idx) ==
    /\ d.vars[var] # "absent"
    /\ Len(shape(d, var)) < 2 \/ profile_idx >= shape(d, var)[1]

\* extract_profile(file_path, profile_idx): the arrays are kept by their
\* lengths.  A variable that is not in the file gives [], length 0; n_levels
\* is the length of data['PRES']; any exception gives None.
extract_profile(d, profile_idx) ==
    IF \/ d.JULD /\ profile_idx >= d.N_PROF
       \/ \E v \in LevelVarSet : IndexError(d, v, profile_idx)
    THEN None
    ELSE LET len == [v \in LevelVarSet |->
                        IF d.vars[v] = "absent" THEN 0 ELSE shape(d, v)[2]]
             n_levels == len["PRES"]
         IN  [ok |-> TRUE, len |-> len,
              N_PROF |-> [i \in 1..n_levels |-> profile_idx],
              N_LEVELS |-> [i \in 1..n_levels |-> i - 1]]

\* transform_data(data) raises: pd.DataFrame refuses a dict whose columns do
\* not all have one length ("All arrays must be of the same length"), and the
\* columns N_PROF, N_LEVELS, JULD, LATITUDE, LONGITUDE have length n.
transform_raises(data) ==
    \E v \in LevelVarSet : data.len[v] # Len(data.N_LEVELS)

\* transform_data(data) followed by df['SOURCE_FILE'] = file_path.name.
transform_frame(file, data) ==
    [i \in 1..Len(data.N_LEVELS) |-> Row(file, data.N_PROF[i], data.N_LEVELS[i])]

\* A run of etl.py at "Processing file": its position, the counters of its
\* loop, the lines it logged by level, and the frame save_to_csv holds
\* between its test of output_path.exists() and its call of df.to_csv.
EtlStart ==
    [pc |-> "open", n_prof |-> 0, profile_idx |-> 0, warnings |-> 0, errors |-> 0,
     faults |-> 0, opened |-> FALSE, saved |-> {}, no_data |-> {}, raised |-> {},
     df |-> <<>>, append |-> FALSE]

\* No run of etl.py is being followed.
EtlOff == <<>>

\* ------------------------------------------------------- db_conversion.py
\* A loader that goes on only when no source file of the accumulation is in
\* the table yet.
new_sources_if_none_known(csv_rows, table) ==
    IF Sources(csv_rows) \cap Sources(table) = {} THEN Sources(csv_rows) ELSE {}

\* csv_sources = set(df['SOURCE_FILE'].unique()); db_sources from SELECT
\* DISTINCT SOURCE_FILE; new_sources = csv_sources - db_sources
new_sources(csv_rows, table) == Sources(csv_rows) \ Sources(table)

\* A loader that, without a SOURCE_FILE column to tell by, compares the rows
\* themselves: nothing to load when every row is in the table already.
up_to_date_by_rows(cols, csv_rows, table) ==
    IF "SOURCE_FILE" \in cols
    THEN new_sources(csv_rows, table) = {}
    ELSE \A i \in 1..Len(csv_rows) : \E j \in 1..Len(table) : table[j] = csv_rows[i]

\* if 'SOURCE_FILE' in df.columns: ... if not new_sources: return
\* (without the column the check is not made at all)
up_to_date(cols, csv_rows, table) ==
    /\ "SOURCE_FILE" \in cols
    /\ new_sources(csv_rows, table) = {}

\* A loader that writes only into a table that has no row yet.
insert_data_from_csv_into_empty(csv, table) ==
    IF ~csv.exists THEN table
    ELSE IF table # <<>> THEN table
         ELSE table \o csv.rows

\* insert_data_from_csv, when no statement raises.  new_sources decides only
\* whether anything is written: df_new is computed and never used, and
\* df = df[keep] followed by df.to_sql(..., if_exists="append") appends every
\* row of the accumulation.
insert_data_from_csv(csv, table) ==
    IF ~csv.exists THEN table
    ELSE IF new_sources(csv.rows, table) = {} THEN table
         ELSE table \o csv.rows

\* How a run of db_conversion.py can end: "ok"; "caught", an exception inside
\* the try block (read_csv, the SELECT or to_sql failing, a lock timeout),
\* which is logged and leaves exit code 0; "crash", an exception outside it
\* (create_database, sqlite3.connect, the PRAGMAs), which ends the process
\* with a non-zero exit code.
LoadResults(csv) == IF csv.exists THEN {"ok", "caught", "crash"} ELSE {"ok", "crash"}

\* A transaction that is left open, or committed, with the rows it got in
\* when a statement of it fails.
keep_partial(table, txn) == table \o txn

\* The table after a transaction that inserted txn ended without commit:
\* pandas' to_sql rolls back when an insert raises, and conn.close() drops
\* what was not committed.
rollback(table, txn) == table

\* The table after the transaction that inserted txn was committed.
commit(table, txn) == table \o txn

\* expected_cols = ['N_PROF', 'N_LEVELS', ..., 'SOURCE_FILE']: of the twelve
\* expected columns, those the rows of the model carry.
expected_cols == {"N_PROF", "N_LEVELS", "SOURCE_FILE"}

\* df.columns after pd.read_csv: the columns of the header line, which are
\* the fields each row has.
columns(rows) == IF rows = <<>> THEN expected_cols ELSE DOMAIN rows[1]

\* A selection of every expected column, in the frame or not.
keep_all_expected(cols) == expected_cols

\* keep = [c for c in expected_cols if c in df.columns]
keep(cols) == expected_cols \cap cols

\* missing = [c for c in expected_cols if c not in df.columns]
missing(cols) == expected_cols \ cols

\* df[keep]: the rows with the columns of cols only.  A column that is left
\* out is NULL in the row to_sql inserts: a row of table profiles has the
\* fields that are not NULL.
select(rows, cols) == [i \in 1..Len(rows) |-> [c \in cols |-> rows[i][c]]]

\* A run of db_conversion.py at its start: the rows read_csv returned, the
\* rows inserted in the open transaction, the table as the run found it, the
\* number of commits that changed the table, inserts undone, how it ended,
\* the warnings it logged ("Consolidated CSV not found", "Missing
\* columns"), the statements of it that failed for a reason outside the
\* program (disk, lock, permissions), and which run in a row it is.
LoaderStart ==
    [pc |-> "create", df |-> <<>>, txn |-> <<>>, before |-> <<>>, commits |-> 0,
     undone |-> 0, result |-> "none", warnings |-> 0, faults |-> 0, run |-> 1]

\* No run of db_conversion.py is being followed.
LoaderOff == [LoaderStart EXCEPT !.pc = "off"]

\* ------------------------------------------------------------------ app.py
\* The statements of run_etl_and_load, in order.
StageOrder == <<"inspect", "etl", "sleep", "load", "cleanup">>

Stages == SeqSet(StageOrder)

\* run_etl_and_load without its time.sleep(2).
NextStageNoDelay(s) ==
    CASE s = "inspect" -> "etl"
      [] s = "etl"     -> "load"
      [] s = "load"    -> "cleanup"
      [] OTHER         -> "idle"

\* The stage run_etl_and_load goes on with when stage s has returned.
NextStage(s) ==
    CASE s = "inspect" -> "etl"
      [] s = "etl"     -> "sleep"
      [] s = "sleep"   -> "load"
      [] s = "load"    -> "cleanup"
      [] OTHER         -> "idle"

\* A return code that is never checked (as the inspection step's is not).
RaisesNever(returncode) == FALSE

\* if result.returncode != 0: raise RuntimeError(...)
Raises(returncode) == returncode # 0

\* A step 1 that checks the inspection's return code as steps 2 and 3 check
\* theirs.
InspectRaisesOnCode(returncode, stderr) == returncode # 0

\* Step 1 of run_etl_and_load logs result_inspect.stdout and .stderr and has
\* no `if result_inspect.returncode != 0: raise`.
InspectRaises(returncode, stderr) == FALSE

\* result_inspect is not read once step 2 has started.
Forget(j) == [j EXCEPT !.inspect_rc = 0, !.inspect_stderr = FALSE]

NoJob ==
    [status |-> "None", stages |-> <<>>, etl_rc |-> 0, db_rc |-> 0, error_lines |-> 0,
     load_result |-> "none", new_files |-> {}, clean_files |-> {},
     acc_before |-> {}, acc_read |-> TRUE, inspect_rc |-> 0, inspect_stderr |-> FALSE]

NoBase == [valid |-> FALSE, db |-> 0, csv |-> 0, deleted |-> 0, reruns |-> 0]

Running(p) == pc[p] \in Stages

\* Instances of the timer's job that the pool is executing.
Instances == Cardinality({w \in Workers : Running(w)})

\* The interval trigger's job when its wake-ups are not followed: the
\* interval, the run times the last wake-up found due, the seconds the last
\* of them was late when the pool thread looked, and the calls of the job
\* function that came of them.
TimerOff == [interval |-> 3600, pending |-> 0, late |-> 0, runs |-> 0]

\* Nothing is followed apart from the pipeline.
\* No cleanup step is being followed.
SweepOff == [pc |-> "off", listed |-> FALSE, found |-> {}, todo |-> <<>>,
             deleted |-> {}, failed |-> {}, warnings |-> 0]

\* No statement.
NoQuery ==
    [verb |-> "none", shape |-> "none", where |-> {}, order |-> "none", limit |-> 0]

\* No analysis of a message.
NoAnalysis == [intents |-> {}, operator |-> "none", near |-> "none"]

\* No result of execute_query.
NoResult == [success |-> FALSE, error |-> "none", data |-> <<>>, columns |-> {},
             row_count |-> 0]

\* The query-serving component has not been called: its last operation, the
\* statement it generated or was given, the dictionary execute_query
\* returned, the value create_sample_data returned, the success entry of the
\* handler's answer, whether an exception left the operation, the analysis
\* of the message (where a call is followed from the message on) and
\* whether process_user_input caught an exception.
QsOff == [op |-> "none", query |-> NoQuery, result |-> NoResult, returned |-> 0,
          success |-> FALSE, raised |-> FALSE, analysis |-> NoAnalysis,
          caught |-> FALSE]

\* No job has started yet: the stores as a first start of the orchestrator
\* finds them.
NonePersisted == [p \in Procs |-> [csv |-> <<>>, db |-> <<>>]]

BesideOff ==
    process = "up" /\ sweep = SweepOff /\ qs = QsOff /\ persisted = NonePersisted

ApartOff == timer = TimerOff /\ BesideOff

InitPipeline ==
    /\ raw \in SUBSET Files
    /\ consolidated_csv = [exists |-> FALSE, header |-> 0, rows |-> <<>>]
    /\ db = <<>>
    /\ nDownloads = 0
    /\ pc = [p \in Procs |-> IF p = MainThread THEN "boot" ELSE "idle"]
    /\ job = [p \in Procs |-> NoJob]
    /\ errors_log = 0
    /\ schedOn = FALSE
    /\ skipped = 0
    /\ timerJobs = 0
    /\ base = NoBase
    /\ ds = NoDataset
    /\ etl_proc = EtlOff
    /\ db_proc = LoaderOff

Init == InitPipeline /\ ApartOff

\* fetch_and_update_job is entered on thread p: run_etl_and_load starts with
\* the inspection step.
Begin(p) ==
    /\ pc' = [pc EXCEPT ![p] = "inspect"]
    /\ job' = [job EXCEPT ![p] = [NoJob EXCEPT !.status = "Running",
                                               !.stages = <<"inspect">>]]

\* Stage s of p's job has returned without raising.
Advance(p, s, j) ==
    LET n == NextStage(s)
    IN  /\ pc' = [pc EXCEPT ![p] = n]
        /\ job' = [job EXCEPT ![p] =
                     IF n \in Stages THEN [j EXCEPT !.stages = Append(j.stages, n)]
                     ELSE [j EXCEPT !.status = "Succeeded"]]
        /\ errors_log' = errors_log
        /\ skipped' = IF p \in Workers /\ n \notin Stages THEN 0 ELSE skipped

\* A failure that is recorded by a thread that then never returns to the pool.
FailThreadLost(p, j) ==
    /\ pc' = [pc EXCEPT ![p] = "lost"]
    /\ job' = [job EXCEPT ![p] = [j EXCEPT !.status = "Failed",
                                           !.error_lines = j.error_lines + 1]]
    /\ errors_log' = errors_log + 1
    /\ skipped' = skipped

\* except Exception as exc: logging.error(...); _append_to_file(errors.log, ...)
Fail(p, j) ==
    /\ pc' = [pc EXCEPT ![p] = "idle"]
    /\ job' = [job EXCEPT ![p] = [j EXCEPT !.status = "Failed",
                                           !.error_lines = j.error_lines + 1]]
    /\ errors_log' = errors_log + 1
    /\ skipped' = IF p \in Workers THEN 0 ELSE skipped

\* The stores as a successful job leaves them when no other job is running
\* and no raw file is waiting to be consolidated; kept while later jobs run.
BaseAfter(p, dir, gone) ==
    IF base.valid
    THEN [base EXCEPT !.reruns = 1, !.deleted = base.deleted + Cardinality(gone)]
    ELSE IF /\ \A q \in Procs \ {p} : ~Running(q)
            /\ dir \subseteq processed_files(consolidated_csv)
         THEN [valid |-> TRUE, db |-> Len(db), csv |-> Len(consolidated_csv.rows),
               deleted |-> 0, reruns |-> 0]
         ELSE base

\* Step 1 of run_etl_and_load: inspectNETCDF.py ends with some return code
\* and with or without text on stderr; result_inspect is kept until step 2
\* has run, which never reads it.
Inspect(p) ==
    /\ pc[p] = "inspect"
    /\ \E returncode \in 0..1 : \E stderr \in BOOLEAN :
         LET j == [job[p] EXCEPT !.inspect_rc = returncode,
                                 !.inspect_stderr = stderr]
         IN  IF InspectRaises(returncode, stderr)
             THEN Fail(p, j)
             ELSE Advance(p, "inspect", j)
    /\ UNCHANGED <<raw, consolidated_csv, db, nDownloads,
                   schedOn, timerJobs, base>>
    /\ UNCHANGED inside
    /\ UNCHANGED apart

\* A run that extracts nothing when it cannot tell what was processed.
processed_files_all_unless_read(csv, readable) ==
    IF readable /\ "SOURCE_FILE" \in columns(csv.rows)
    THEN processed_files(csv)
    ELSE Files

\* processed_files = set(); if consolidated_csv.exists(): try: read_csv; if
\* 'SOURCE_FILE' in existing_df.columns: processed_files = set(...); except
\* Exception: logging.warning("Could not read existing CSV").  readable:
\* pd.read_csv returns.
processed_files_read(csv, readable) ==
    IF readable /\ "SOURCE_FILE" \in columns(csv.rows)
    THEN processed_files(csv)
    ELSE {}

\* Step 2: etl.py as a subprocess.  A non-zero return code comes from an
\* exception outside the per-file try blocks, before the file loop.
EtlStage(p, readable) ==
    /\ pc[p] = "etl"
    /\ \E returncode \in 0..1 :
         LET cands == netcdf_files(raw)
             seen  == processed_files_read(consolidated_csv, readable)
             todo  == new_files(cands, seen)
         IN  IF Raises(returncode)
             THEN /\ Fail(p, Forget([job[p] EXCEPT !.etl_rc = returncode]))
                  /\ UNCHANGED consolidated_csv
             ELSE \E out \in OutcomeMaps(SeqSet(todo)) :
                    /\ consolidated_csv' = FileLoop(todo, out, consolidated_csv)
                    /\ Advance(p, "etl",
                         [Forget(job[p]) EXCEPT !.etl_rc = returncode,
                                        !.new_files = SeqSet(todo),
                                        !.acc_before = seen,
                                        !.acc_read = readable,
                                        !.clean_files =
                                            {f \in SeqSet(todo) : Clean(f, out[f])}])
    /\ UNCHANGED <<raw, db, nDownloads,
                   schedOn, timerJobs, base>>
    /\ UNCHANGED inside
    /\ UNCHANGED apart

\* The step in the runs in which the accumulation, when it exists, can be
\* read and has its SOURCE_FILE column.
Etl(p) == EtlStage(p, TRUE)

\* time.sleep(2).  What the ETL step reported is in the logs from here on.
Sleep(p) ==
    /\ pc[p] = "sleep"
    /\ Advance(p, "sleep", [job[p] EXCEPT !.new_files = {}, !.clean_files = {},
                                          !.acc_before = {}, !.acc_read = TRUE])
    /\ UNCHANGED <<raw, consolidated_csv, db, nDownloads,
                   schedOn, timerJobs, base>>
    /\ UNCHANGED inside
    /\ UNCHANGED apart

\* Step 3: db_conversion.py as a subprocess.
Load(p) ==
    /\ pc[p] = "load"
    /\ \E res \in LoadResults(consolidated_csv) :
         LET returncode == IF res = "crash" THEN 1 ELSE 0
             j == [job[p] EXCEPT !.db_rc = returncode, !.load_result = res]
         IN  /\ db' = IF res = "ok"
                      THEN insert_data_from_csv(consolidated_csv, db)
                      ELSE db
             /\ IF Raises(returncode) THEN Fail(p, j) ELSE Advance(p, "load", j)
    /\ UNCHANGED <<raw, consolidated_csv, nDownloads,
                   schedOn, timerJobs, base>>
    /\ UNCHANGED inside
    /\ UNCHANGED apart

\* Step 4: for p in raw_dir.glob('*.nc'): p.unlink(), each failure logged;
\* stuck are the files whose unlink raises.
Cleanup(p) ==
    /\ pc[p] = "cleanup"
    /\ \E stuck \in SUBSET raw :
         LET gone == raw \ stuck
         IN  /\ raw' = stuck
             /\ Advance(p, "cleanup", job[p])
             /\ base' = BaseAfter(p, stuck, gone)
    /\ UNCHANGED <<consolidated_csv, db, nDownloads,
                   schedOn, timerJobs>>
    /\ UNCHANGED inside
    /\ UNCHANGED apart

\* A start of the scheduler that leaves the first job to the timer.
run_scheduler_no_startup_job ==
    /\ pc[MainThread] = "boot"
    /\ schedOn' = TRUE
    /\ pc' = [pc EXCEPT ![MainThread] = "idle"]
    /\ UNCHANGED <<raw, consolidated_csv, db, nDownloads, job,
                   errors_log, skipped, timerJobs, base>>
    /\ UNCHANGED inside
    /\ UNCHANGED apart

\* run_scheduler: scheduler.start(), then fetch_and_update_job() on the main
\* thread; the timer's first fire is one interval after the start.
run_scheduler ==
    /\ pc[MainThread] = "boot"
    /\ schedOn' = TRUE
    /\ Begin(MainThread)
    /\ UNCHANGED <<raw, consolidated_csv, db, nDownloads,
                   errors_log, skipped, timerJobs, base>>
    /\ UNCHANGED inside
    /\ UNCHANGED apart

\* executor.submit_job for a run time of the interval trigger.  The executor
\* refuses the job while max_instances instances of it are running (the fire
\* is logged and dropped); otherwise a pool thread runs fetch_and_update_job.
submit_job(limit) ==
    /\ schedOn
    /\ IF Instances >= max_instances
       THEN /\ skipped < MaxSkipped
            /\ skipped' = skipped + 1
            /\ UNCHANGED <<pc, job, timerJobs, errors_log>>
       ELSE /\ timerJobs < limit
            /\ \E w \in Workers :
                 /\ ~Running(w)
                 /\ \A v \in Workers : ~Running(v) => w <= v
                 /\ Begin(w)
            /\ timerJobs' = timerJobs + 1
            /\ UNCHANGED <<skipped, errors_log>>
    /\ UNCHANGED <<raw, consolidated_csv, db, nDownloads, schedOn, base>>
    /\ UNCHANGED inside

\* A fire of the interval trigger at its run time.
Fire(limit) == submit_job(limit) /\ UNCHANGED apart

Tick == Fire(MaxTimerJobs)

\* fast_download.py (or an operator) writes a file into data/rawNETCDF.
Download(f) ==
    /\ nDownloads < MaxDownloads
    /\ f \notin raw
    /\ raw' = raw \cup {f}
    /\ nDownloads' = nDownloads + 1
    /\ base' = NoBase
    /\ UNCHANGED <<consolidated_csv, db, pc, job,
                   errors_log, schedOn, skipped, timerJobs>>
    /\ UNCHANGED inside
    /\ UNCHANGED apart

Next ==
    \/ run_scheduler
    \/ Tick
    \/ \E f \in Files : Download(f)
    \/ \E p \in Procs : Inspect(p)
    \/ \E p \in Procs : Etl(p)
    \/ \E p \in Procs : Sleep(p)
    \/ \E p \in Procs : Load(p)
    \/ \E p \in Procs : Cleanup(p)

Spec == Init /\ [][Next]_vars

\* The runs in which the startup job is over before the timer's first fire
\* (the job takes less than one interval, 60 minutes by default).
TickAfterStartup == ~Running(MainThread) /\ Tick

NextInTime ==
    \/ run_scheduler
    \/ TickAfterStartup
    \/ \E f \in Files : Download(f)
    \/ \E p \in Procs : Inspect(p)
    \/ \E p \in Procs : Etl(p)
    \/ \E p \in Procs : Sleep(p)
    \/ \E p \in Procs : Load(p)
    \/ \E p \in Procs : Cleanup(p)

SpecInTime == Init /\ [][NextInTime]_vars

\* The runs on a raw directory that is and stays empty, followed over more
\* timer fires.
InitEmptyDir == Init /\ raw = {}

TimerFire == Fire(MaxFires)

NextTimer ==
    \/ run_scheduler
    \/ TimerFire
    \/ \E p \in Procs : Inspect(p)
    \/ \E p \in Procs : Etl(p)
    \/ \E p \in Procs : Sleep(p)
    \/ \E p \in Procs : Load(p)
    \/ \E p \in Procs : Cleanup(p)

SpecTimer == InitEmptyDir /\ [][NextTimer]_vars

\* A stage of the job thread p runs.
StageStep(p) == Inspect(p) \/ Etl(p) \/ Sleep(p) \/ Load(p) \/ Cleanup(p)

\* The same runs when the interval trigger keeps firing and every subprocess
\* a job starts comes to an end.
SpecTimerLive ==
    /\ SpecTimer
    /\ WF_vars(TimerFire)
    /\ \A p \in Procs : WF_vars(StageStep(p))

\* ------------------------------------------- wake-ups of the scheduler thread
\* job._get_run_times(now): the run times from next_run_time on, one interval
\* apart, that are not after now; kept as seconds after next_run_time, with
\* now late seconds after it.
get_run_times(interval, late) ==
    [k \in 1..((late \div interval) + 1) |-> (k - 1) * interval]

\* run_times[-1:] if run_times and job.coalesce else run_times
coalesced(run_times) ==
    IF run_times # <<>> /\ coalesce
    THEN SubSeq(run_times, Len(run_times), Len(run_times))
    ELSE run_times

\* run_job in the pool thread: a run time that is more than
\* misfire_grace_time seconds before now is logged as missed and skipped; the
\* job function is called for each of the others.
run_job(run_times, now) ==
    SelectSeq(run_times, LAMBDA t : now - t <= misfire_grace_time)

\* The runs in which the scheduler thread's wake-ups are followed, on an
\* empty raw directory.
InitMisfire ==
    /\ InitPipeline
    /\ raw = {}
    /\ timer \in {[TimerOff EXCEPT !.interval = i] : i \in Intervals}
    /\ BesideOff

\* _process_jobs at a wake-up that comes late seconds after the job's
\* next_run_time: the due run times, coalesced, go to the executor, which
\* refuses them when max_instances instances are running; else a pool thread
\* takes them, wait seconds later, and calls the job function for those
\* within the grace time.
ProcessJobs ==
    /\ schedOn
    /\ \E late \in Lateness, wait \in PoolDelays :
         LET found     == get_run_times(timer.interval, late)
             run_times == coalesced(found)
             now       == late + wait
             called    == run_job(run_times, now)
             refused   == Instances >= max_instances
         IN  /\ timer' = [timer EXCEPT
                            !.pending = Len(found),
                            !.late = now - run_times[Len(run_times)],
                            !.runs = IF refused THEN 0 ELSE Len(called)]
             /\ IF ~refused /\ called = <<>>
                THEN UNCHANGED <<raw, consolidated_csv, db, nDownloads, pc, job,
                                 errors_log, schedOn, skipped, timerJobs, base,
                                 ds, etl_proc, db_proc>>
                ELSE submit_job(MaxFires)
    /\ UNCHANGED beside

NextMisfire ==
    \/ run_scheduler
    \/ ProcessJobs
    \/ \E p \in Procs : Inspect(p)
    \/ \E p \in Procs : Etl(p)
    \/ \E p \in Procs : Sleep(p)
    \/ \E p \in Procs : Load(p)
    \/ \E p \in Procs : Cleanup(p)

SpecMisfire == InitMisfire /\ [][NextMisfire]_vars

\* ------------------------------------------------------ an interrupt signal
\* SIGINT reaches the orchestrator process: KeyboardInterrupt is raised in
\* the main thread.  In the while loop of run_scheduler it is caught and
\* scheduler.shutdown(wait=False) is called.  During the startup job the main
\* thread is in a statement of run_etl_and_load: subprocess.run kills its
\* child and re-raises (time.sleep and the unlink loop are left as they
\* are), except Exception in fetch_and_update_job does not catch it, and the
\* call is outside the try of run_scheduler.  What the killed stage has done
\* so far stays: the rows etl.py wrote before the profile it was at, the
\* loader's commit if it came to it, the files already unlinked.
KeyboardInterrupt ==
    /\ process = "up"
    /\ pc[MainThread] # "boot"
    /\ process' = "exiting"
    /\ IF Running(MainThread)
       THEN /\ pc' = [pc EXCEPT ![MainThread] = "interrupted"]
            /\ IF pc[MainThread] = "etl"
               THEN LET todo == new_files(netcdf_files(raw),
                                         processed_files(consolidated_csv))
                    IN  \E out \in OutcomeMaps(SeqSet(todo)) :
                          consolidated_csv' = FileLoopAbort(todo, out, consolidated_csv)
               ELSE UNCHANGED consolidated_csv
            /\ IF pc[MainThread] = "load"
               THEN db' \in {db, insert_data_from_csv(consolidated_csv, db)}
               ELSE UNCHANGED db
            /\ IF pc[MainThread] = "cleanup"
               THEN raw' \in SUBSET raw
               ELSE UNCHANGED raw
            /\ UNCHANGED schedOn
       ELSE /\ schedOn' = FALSE
            /\ UNCHANGED <<raw, consolidated_csv, db, pc>>
    /\ UNCHANGED <<nDownloads, job, errors_log, skipped, timerJobs, base, timer>>
    /\ UNCHANGED inside
    /\ UNCHANGED followed

\* The interpreter exits: it waits for the pool threads, which run their
\* jobs to the end (a pool that is shut down takes no new job).
Exit ==
    /\ process = "exiting"
    /\ \A w \in Workers : ~Running(w)
    /\ process' = "exited"
    /\ UNCHANGED <<raw, consolidated_csv, db, nDownloads, pc, job,
                   errors_log, schedOn, skipped, timerJobs, base, timer>>
    /\ UNCHANGED inside
    /\ UNCHANGED followed

\* The runs of SpecInTime with an interrupt signal at any point: jobs are
\* started while the process is up, stages run until it has exited.
NextInterrupt ==
    \/ process = "up" /\ run_scheduler
    \/ process = "up" /\ TickAfterStartup
    \/ \E f \in Files : process = "up" /\ Download(f)
    \/ \E p \in Procs : process # "exited" /\ Inspect(p)
    \/ \E p \in Procs : process # "exited" /\ Etl(p)
    \/ \E p \in Procs : process # "exited" /\ Sleep(p)
    \/ \E p \in Procs : process # "exited" /\ Load(p)
    \/ \E p \in Procs : process # "exited" /\ Cleanup(p)
    \/ KeyboardInterrupt
    \/ Exit

SpecInterrupt == Init /\ [][NextInterrupt]_vars

\* ------------------------------------------- the cleanup step, in detail
\* A sweep that ends at the first unlink that raises.
after_unlink_error_abort(todo) == <<>>

\* except Exception as exc: logging.warning("Failed to delete ..."): the for
\* loop goes on with the files after the one whose unlink raised.
after_unlink_error(todo) == Tail(todo)

\* A sweep over the files that table profiles has rows of.
swept_if_loaded(dir, loaded) == dir \cap loaded

\* for p in raw_dir.glob('*.nc'): every file of the directory is taken,
\* whatever its age and whether or not the stores have rows of it.
swept(dir, loaded) == dir

\* The job of thread p has come to step 4 with the files of its raw directory
\* consolidated and loaded.
InitCleanup ==
    /\ raw \in SUBSET Files
    /\ consolidated_csv =
          Consolidated(raw, [exists |-> FALSE, header |-> 0, rows |-> <<>>])
    /\ db = consolidated_csv.rows
    /\ nDownloads = 0
    /\ \E p \in Procs :
         /\ pc = [q \in Procs |-> IF q = p THEN "cleanup" ELSE "idle"]
         /\ job = [q \in Procs |->
                     IF q = p THEN [NoJob EXCEPT !.status = "Running",
                                                 !.stages = StageOrder,
                                                 !.load_result = "ok"]
                     ELSE NoJob]
         /\ timerJobs = IF p = MainThread THEN 0 ELSE 1
    /\ errors_log = 0
    /\ schedOn = TRUE
    /\ skipped = 0
    /\ base = NoBase
    /\ ds = NoDataset
    /\ etl_proc = EtlOff
    /\ db_proc = LoaderOff
    /\ timer = TimerOff
    /\ process = "up"
    /\ sweep = [SweepOff EXCEPT !.pc = "glob"]
    /\ qs = QsOff
    /\ persisted = NonePersisted

\* if raw_dir.exists(): for p in raw_dir.glob('*.nc'): the files the sweep
\* will go through; raises: the directory cannot be listed, which the outer
\* except logs ("Raw cleanup step failed").
Glob ==
    /\ sweep.pc = "glob"
    /\ \E raises \in BOOLEAN :
         sweep' = IF raises
                  THEN [sweep EXCEPT !.pc = "end", !.warnings = @ + 1]
                  ELSE LET dir == swept(raw, Sources(db))
                       IN  [sweep EXCEPT !.pc = IF dir = {} THEN "end" ELSE "unlink",
                                         !.listed = TRUE,
                                         !.found = dir,
                                         !.todo = netcdf_files(dir)]
    /\ UNCHANGED <<raw, consolidated_csv, db, nDownloads, pc, job,
                   errors_log, schedOn, skipped, timerJobs, base,
                   timer, process, qs, persisted>>
    /\ UNCHANGED inside

\* One pass of the for loop: p.unlink(); deleted += 1, or the unlink raises
\* and the failure is logged for that file.
Unlink ==
    /\ sweep.pc = "unlink"
    /\ LET f == Head(sweep.todo)
       IN  \E raises \in BOOLEAN :
             LET todo == IF raises THEN after_unlink_error(sweep.todo)
                         ELSE Tail(sweep.todo)
                 s == [sweep EXCEPT !.todo = todo,
                                    !.pc = IF todo = <<>> THEN "end" ELSE "unlink"]
             IN  IF raises
                 THEN /\ sweep' = [s EXCEPT !.failed = @ \cup {f},
                                            !.warnings = @ + 1]
                      /\ UNCHANGED raw
                 ELSE /\ sweep' = [s EXCEPT !.deleted = @ \cup {f}]
                      /\ raw' = raw \ {f}
    /\ UNCHANGED <<consolidated_csv, db, nDownloads, pc, job,
                   errors_log, schedOn, skipped, timerJobs, base,
                   timer, process, qs, persisted>>
    /\ UNCHANGED inside

\* logging.info("Deleted ... raw NetCDF file(s)"), run_etl_and_load returns
\* and fetch_and_update_job logs "Job finished successfully."
EndSweep ==
    /\ sweep.pc = "end"
    /\ sweep' = [sweep EXCEPT !.pc = "done"]
    /\ \E p \in Procs :
         /\ pc[p] = "cleanup"
         /\ Advance(p, "cleanup", job[p])
         /\ base' = BaseAfter(p, raw, sweep.deleted)
    /\ UNCHANGED <<raw, consolidated_csv, db, nDownloads,
                   schedOn, timerJobs, timer, process, qs, persisted>>
    /\ UNCHANGED inside

NextCleanup ==
    \/ Glob
    \/ Unlink
    \/ EndSweep

SpecCleanup == InitCleanup /\ [][NextCleanup]_vars

\* Step 4 is entered by the job of thread p: the sweep is followed file by
\* file (jobs that do not overlap have at most one sweep under way).
StartSweep(p) ==
    /\ pc[p] = "cleanup"
    /\ sweep.pc \in {"off", "done"}
    /\ sweep' = [SweepOff EXCEPT !.pc = "glob"]
    /\ UNCHANGED <<raw, consolidated_csv, db, nDownloads, pc, job,
                   errors_log, schedOn, skipped, timerJobs, base,
                   timer, process, qs, persisted>>
    /\ UNCHANGED inside

\* The runs of SpecInTime in which no file arrives, with the cleanup step
\* followed file by file.
NextJobSweep ==
    \/ run_scheduler
    \/ TickAfterStartup
    \/ \E p \in Procs : Inspect(p)
    \/ \E p \in Procs : Etl(p)
    \/ \E p \in Procs : Sleep(p)
    \/ \E p \in Procs : Load(p)
    \/ \E p \in Procs : StartSweep(p)
    \/ Glob
    \/ Unlink
    \/ EndSweep

SpecJobSweep == Init /\ [][NextJobSweep]_vars

\* ------------------------------------------------- runs in which nothing fails
\* The input directory of the scenario: A.nc and B.nc.
ScenarioFiles == {"A.nc", "B.nc"}

InitScenario == Init /\ raw = ScenarioFiles

\* etl.py exits with code 0 and the extraction of every new file raises
\* nothing.
EtlClean(p) ==
    /\ Etl(p)
    /\ job'[p].etl_rc = 0
    /\ job'[p].clean_files = job'[p].new_files
    /\ pc'[p] = "sleep"

\* db_conversion.py returns normally.
LoadOk(p) == Load(p) /\ job'[p].load_result = "ok"

\* Every unlink of the cleanup sweep succeeds.
CleanupAll(p) == Cleanup(p) /\ raw' = {}

NextNoFault ==
    \/ run_scheduler
    \/ TickAfterStartup
    \/ \E f \in Files : Download(f)
    \/ \E p \in Procs : Inspect(p)
    \/ \E p \in Procs : EtlClean(p)
    \/ \E p \in Procs : Sleep(p)
    \/ \E p \in Procs : LoadOk(p)
    \/ \E p \in Procs : CleanupAll(p)

SpecNoFault == InitScenario /\ [][NextNoFault]_vars

\* ----------------------------------------------- etl.py main on one file
\* The stores and the orchestrator while runs of etl.py on the file XFile
\* are followed from "Processing file" on.
InitFollowed ==
    /\ raw = {XFile}
    /\ db = <<>>
    /\ nDownloads = 0
    /\ pc = [p \in Procs |-> "idle"]
    /\ job = [p \in Procs |-> NoJob]
    /\ errors_log = 0
    /\ schedOn = FALSE
    /\ skipped = 0
    /\ timerJobs = 0
    /\ base = NoBase
    /\ db_proc = LoaderOff
    /\ ApartOff

\* One run of etl.py; the accumulation is absent or holds the rows of B.nc.
InitExtract ==
    /\ InitFollowed
    /\ consolidated_csv \in
         {[exists |-> FALSE, header |-> 0, rows |-> <<>>],
          Consolidated({"B.nc"}, [exists |-> FALSE, header |-> 0, rows |-> <<>>])}
    /\ ds \in Datasets
    /\ etl_proc = [q \in {1} |-> EtlStart]

\* except Exception as exc: logging.error("Failed to process ..."): the
\* file's try block is left by the exception of the profile indices at (of
\* none when the file could not be opened).
FileFailed(e, at) ==
    [e EXCEPT !.pc = "done", !.errors = e.errors + 1, !.raised = at]

\* The profile loop goes on after index profile_idx.
NextProfile(e) ==
    [e EXCEPT !.profile_idx = e.profile_idx + 1,
              !.pc = IF e.profile_idx + 1 >= e.n_prof THEN "done" ELSE "loop"]

\* with nc.Dataset(file_path, 'r') as ds: n_prof from JULD or the fallback,
\* logged at level INFO ("Profiles detected"); open_error: the file cannot be
\* opened.
OpenDataset(q) ==
    /\ etl_proc[q].pc = "open"
    /\ \E open_error \in BOOLEAN :
         etl_proc' = [etl_proc EXCEPT ![q] =
            IF open_error
            THEN FileFailed([@ EXCEPT !.faults = 1], {})
            ELSE [@ EXCEPT !.n_prof = detect_n_prof(ds),
                           !.opened = TRUE,
                           !.pc = IF detect_n_prof(ds) = 0 THEN "done"
                                  ELSE "loop"]]
    /\ UNCHANGED <<raw, consolidated_csv, db, nDownloads, pc, job,
                   errors_log, schedOn, skipped, timerJobs, base, ds, db_proc>>
    /\ UNCHANGED apart

\* One pass of for profile_idx in range(n_prof), up to save_to_csv's test of
\* output_path.exists().  read_error: the file can no longer be read when
\* extract_profile opens it (caught there).
ExtractProfile(q) ==
    /\ etl_proc[q].pc = "loop"
    /\ \E read_error \in BOOLEAN :
         LET idx  == etl_proc[q].profile_idx
             data == IF read_error THEN None ELSE extract_profile(ds, idx)
             df   == transform_frame(XFile, data)
             e    == [etl_proc[q] EXCEPT !.faults = IF read_error THEN 1 ELSE @]
         IN  etl_proc' = [etl_proc EXCEPT ![q] =
                IF ~data.ok
                THEN NextProfile([e EXCEPT !.warnings = @ + 1,
                                           !.no_data = @ \cup {idx}])
                ELSE IF transform_raises(data)
                THEN FileFailed(e, {idx})
                ELSE IF df = <<>>
                THEN NextProfile([e EXCEPT !.saved = @ \cup {idx}])
                ELSE [e EXCEPT !.pc = "write", !.df = df,
                               !.append = consolidated_csv.exists]]
    /\ UNCHANGED <<raw, consolidated_csv, db, nDownloads, pc, job,
                   errors_log, schedOn, skipped, timerJobs, base, ds, db_proc>>
    /\ UNCHANGED apart

\* The df.to_csv call of save_to_csv, in the mode its test chose.  io_error:
\* the call raises.
WriteCsv(q) ==
    /\ etl_proc[q].pc = "write"
    /\ \E io_error \in BOOLEAN :
         LET e == [etl_proc[q] EXCEPT !.df = <<>>, !.append = FALSE]
         IN  IF io_error
             THEN /\ etl_proc' = [etl_proc EXCEPT ![q] =
                        FileFailed([e EXCEPT !.faults = 1], {e.profile_idx})]
                  /\ UNCHANGED consolidated_csv
             ELSE /\ consolidated_csv' =
                        to_csv(etl_proc[q].df, consolidated_csv, etl_proc[q].append)
                  /\ etl_proc' = [etl_proc EXCEPT ![q] =
                        NextProfile([e EXCEPT !.saved = @ \cup {e.profile_idx}])]
    /\ UNCHANGED <<raw, db, nDownloads, pc, job,
                   errors_log, schedOn, skipped, timerJobs, base, ds, db_proc>>
    /\ UNCHANGED apart

NextExtract ==
    \/ \E q \in DOMAIN etl_proc : OpenDataset(q)
    \/ \E q \in DOMAIN etl_proc : ExtractProfile(q)
    \/ \E q \in DOMAIN etl_proc : WriteCsv(q)

SpecExtract == InitExtract /\ [][NextExtract]_vars

\* The ETL subprocesses of two jobs that overlap (the startup job and the
\* timer's first job) on a file with JULD and all six variables in the Argo
\* layout, with no accumulation yet.
InitOverlap ==
    /\ InitFollowed
    /\ consolidated_csv = [exists |-> FALSE, header |-> 0, rows |-> <<>>]
    /\ ds \in {d \in Datasets : /\ d.JULD
                                /\ d.N_LEVELS >= 1
                                /\ \A v \in LevelVarSet : d.vars[v] = "PL"}
    /\ etl_proc = [q \in {1, 2} |-> EtlStart]

SpecOverlap == InitOverlap /\ [][NextExtract]_vars

\* ------------------------- the ETL stage on an accumulation it cannot use
\* The main thread's job is at its ETL stage; the accumulation is absent or
\* holds the rows of earlier runs, with its SOURCE_FILE column or (written
\* by something else than etl.py) without it.
InitReread ==
    /\ raw \in SUBSET {"A.nc", "B.nc"}
    /\ \E T \in SUBSET {"A.nc", "B.nc"} : \E cols \in {expected_cols,
                                                      expected_cols \ {"SOURCE_FILE"}} :
         LET acc == Consolidated(T, [exists |-> FALSE, header |-> 0, rows |-> <<>>])
         IN  consolidated_csv = [acc EXCEPT !.rows = select(@, cols)]
    /\ db = <<>>
    /\ nDownloads = 0
    /\ pc = [p \in Procs |-> IF p = MainThread THEN "etl" ELSE "idle"]
    /\ job = [p \in Procs |->
                IF p = MainThread
                THEN [NoJob EXCEPT !.status = "Running", !.stages = <<"inspect", "etl">>]
                ELSE NoJob]
    /\ errors_log = 0
    /\ schedOn = TRUE
    /\ skipped = 0
    /\ timerJobs = 0
    /\ base = NoBase
    /\ ds = NoDataset
    /\ etl_proc = EtlOff
    /\ db_proc = LoaderOff
    /\ ApartOff

\* The ETL stage, pd.read_csv of the accumulation failing or not.
EtlAnyCsv(p) == \E readable \in BOOLEAN : EtlStage(p, readable)

NextReread ==
    \/ EtlAnyCsv(MainThread)
    \/ Sleep(MainThread)

SpecReread == InitReread /\ [][NextReread]_vars

\* ------------------------------------- jobs whose ETL subprocess is followed
\* The run of etl.py that thread p's job starts.
EtlOf(p) == p + 1

\* No run of etl.py has been started for the stage.
EtlIdle == [EtlStart EXCEPT !.pc = "idle"]

\* A first start of the orchestrator: no accumulation, an empty table and
\* the raw file XFile (with JULD and all six variables in the Argo layout).
InitJobs ==
    /\ raw = {XFile}
    /\ consolidated_csv = [exists |-> FALSE, header |-> 0, rows |-> <<>>]
    /\ db = <<>>
    /\ nDownloads = 0
    /\ pc = [p \in Procs |-> IF p = MainThread THEN "boot" ELSE "idle"]
    /\ job = [p \in Procs |-> NoJob]
    /\ errors_log = 0
    /\ schedOn = FALSE
    /\ skipped = 0
    /\ timerJobs = 0
    /\ base = NoBase
    /\ ds \in {d \in Datasets : /\ d.JULD
                                /\ d.N_LEVELS >= 1
                                /\ \A v \in LevelVarSet : d.vars[v] = "PL"}
    /\ etl_proc = [q \in {EtlOf(MainThread), EtlOf(1)} |-> EtlIdle]
    /\ db_proc = LoaderOff
    /\ ApartOff

\* fetch_and_update_job is entered by a pool thread: the rows the stores hold
\* at that moment are noted.
SubmitJob ==
    /\ submit_job(MaxFires)
    /\ persisted' = [p \in Procs |->
                       IF pc'[p] = "inspect" /\ pc[p] # "inspect"
                       THEN [csv |-> consolidated_csv.rows, db |-> db]
                       ELSE persisted[p]]
    /\ UNCHANGED <<timer, process, sweep, qs>>

\* Step 2 of run_etl_and_load, subprocess.run([python, etl.py]): a non-zero
\* return code comes from an exception before the file loop; else the run
\* lists the raw files and comes to "Processing file" for XFile when the
\* accumulation has no row of it, and to its end otherwise.
LaunchEtl(p) ==
    /\ pc[p] = "etl"
    /\ etl_proc[EtlOf(p)].pc = "idle"
    /\ \E returncode \in 0..1 :
         IF Raises(returncode)
         THEN /\ Fail(p, Forget([job[p] EXCEPT !.etl_rc = returncode]))
              /\ UNCHANGED etl_proc
         ELSE /\ etl_proc' = [etl_proc EXCEPT ![EtlOf(p)] =
                    IF XFile \in raw \ processed_files(consolidated_csv)
                    THEN EtlStart
                    ELSE [EtlStart EXCEPT !.pc = "done"]]
              /\ job' = [job EXCEPT ![p] = Forget(job[p])]
              /\ UNCHANGED <<pc, errors_log, skipped>>
    /\ UNCHANGED <<raw, consolidated_csv, db, nDownloads,
                   schedOn, timerJobs, base, ds, db_proc>>
    /\ UNCHANGED apart

\* The run of etl.py has ended with return code 0: subprocess.run returns.
EtlReturns(p) ==
    /\ pc[p] = "etl"
    /\ etl_proc[EtlOf(p)].pc = "done"
    /\ Advance(p, "etl", [job[p] EXCEPT !.etl_rc = 0])
    /\ etl_proc' = [etl_proc EXCEPT ![EtlOf(p)] = EtlIdle]
    /\ UNCHANGED <<raw, consolidated_csv, db, nDownloads,
                   schedOn, timerJobs, base, ds, db_proc>>
    /\ UNCHANGED apart

\* The threads whose jobs are followed: the main thread (the startup job)
\* and the pool thread that max_instances lets run.
JobThreads == {MainThread, 1}

NextJobs ==
    \/ run_scheduler
    \/ SubmitJob
    \/ \E p \in JobThreads : Inspect(p)
    \/ \E p \in JobThreads : LaunchEtl(p)
    \/ NextExtract
    \/ \E p \in JobThreads : EtlReturns(p)
    \/ \E p \in JobThreads : Sleep(p)
    \/ \E p \in JobThreads : Load(p)
    \/ \E p \in JobThreads : Cleanup(p)

SpecJobs == InitJobs /\ [][NextJobs]_vars

\* ------------------------------------------- db_conversion.py, in detail
\* One run of db_conversion.py: the files of T were consolidated and loaded
\* by an earlier job, those of U were consolidated since.
InitLoader ==
    /\ raw = {}
    /\ \E T \in SUBSET Files : \E U \in SUBSET (Files \ T) :
         LET old == Consolidated(T, [exists |-> FALSE, header |-> 0, rows |-> <<>>])
         IN  /\ consolidated_csv = Consolidated(U, old)
             /\ db = old.rows
    /\ nDownloads = 0
    /\ pc = [p \in Procs |-> "idle"]
    /\ job = [p \in Procs |-> NoJob]
    /\ errors_log = 0
    /\ schedOn = FALSE
    /\ skipped = 0
    /\ timerJobs = 0
    /\ base = NoBase
    /\ ds = NoDataset
    /\ etl_proc = EtlOff
    /\ db_proc = [LoaderStart EXCEPT !.before = db]
    /\ ApartOff

\* The run is over: result "ok" (returned normally), "caught" (the except
\* clause of insert_data_from_csv logged an exception; exit code 0) or
\* "crash" (an exception outside the try block; non-zero exit code).
LoaderEnds(d, result) == [d EXCEPT !.pc = "done", !.result = result]

\* The run is over because a statement failed for an outside reason.
LoaderFails(d, result) == LoaderEnds([d EXCEPT !.faults = @ + 1], result)

\* create_database(): CREATE TABLE IF NOT EXISTS leaves the rows alone.
CreateDatabase ==
    /\ db_proc.pc = "create"
    /\ \E raises \in BOOLEAN :
         db_proc' = IF raises THEN LoaderFails(db_proc, "crash")
                    ELSE [db_proc EXCEPT !.pc = "connect"]
    /\ UNCHANGED <<raw, consolidated_csv, db, nDownloads, pc, job,
                   errors_log, schedOn, skipped, timerJobs, base, ds, etl_proc>>
    /\ UNCHANGED apart

\* A loader that takes a missing accumulation for an error and ends with
\* FileNotFoundError.
not_found_raises(d) == [d EXCEPT !.pc = "done", !.result = "crash"]

\* if not consolidated_csv.exists(): logging.warning("Consolidated CSV not
\* found"); conn.close(); return
not_found(d) == [d EXCEPT !.pc = "done", !.result = "ok", !.warnings = 1]

\* sqlite3.connect, the PRAGMAs, and the return when the accumulation does
\* not exist.
Connect ==
    /\ db_proc.pc = "connect"
    /\ \E raises \in BOOLEAN :
         db_proc' = IF raises THEN LoaderFails(db_proc, "crash")
                    ELSE IF ~consolidated_csv.exists THEN not_found(db_proc)
                    ELSE [db_proc EXCEPT !.pc = "read"]
    /\ UNCHANGED <<raw, consolidated_csv, db, nDownloads, pc, job,
                   errors_log, schedOn, skipped, timerJobs, base, ds, etl_proc>>
    /\ UNCHANGED apart

\* pd.read_csv, the SELECT DISTINCT and the test of new_sources (made when
\* the frame has a SOURCE_FILE column): the run returns when there is none;
\* else the missing columns are logged in one warning and the run goes on to
\* df.to_sql with all rows of df[keep].  df[keep] raises KeyError for a
\* column that is not in the frame.
ReadCsv ==
    /\ db_proc.pc = "read"
    /\ \E raises \in BOOLEAN :
         LET cols == columns(consolidated_csv.rows)
         IN  db_proc' =
                IF raises THEN LoaderFails(db_proc, "caught")
                ELSE IF up_to_date(cols, consolidated_csv.rows, db)
                THEN LoaderEnds(db_proc, "ok")
                ELSE LET d == [db_proc EXCEPT
                                 !.warnings = IF missing(cols) # {} THEN 1 ELSE 0]
                     IN  IF ~(keep(cols) \subseteq cols)
                         THEN LoaderEnds(d, "caught")
                         ELSE [d EXCEPT !.pc = "to_sql",
                                        !.df = select(consolidated_csv.rows, keep(cols))]
    /\ UNCHANGED <<raw, consolidated_csv, db, nDownloads, pc, job,
                   errors_log, schedOn, skipped, timerJobs, base, ds, etl_proc>>
    /\ UNCHANGED apart

\* df.to_sql(..., if_exists="append") inserts the next row of df in its
\* transaction, or the insert raises: the transaction ends without commit and
\* the exception is caught by insert_data_from_csv.
InsertRow ==
    /\ db_proc.pc = "to_sql"
    /\ Len(db_proc.txn) < Len(db_proc.df)
    /\ \E raises \in BOOLEAN :
         IF raises
         THEN /\ db' = rollback(db, db_proc.txn)
              /\ db_proc' = LoaderFails([db_proc EXCEPT !.txn = <<>>,
                                                        !.undone = Len(db_proc.txn)],
                                        "caught")
         ELSE /\ db' = db
              /\ db_proc' = [db_proc EXCEPT !.txn =
                                Append(@, db_proc.df[Len(db_proc.txn) + 1])]
    /\ UNCHANGED <<raw, consolidated_csv, nDownloads, pc, job,
                   errors_log, schedOn, skipped, timerJobs, base, ds, etl_proc>>
    /\ UNCHANGED apart

\* The commit that ends to_sql (conn.commit() then finds nothing to commit),
\* or its failure.
Commit ==
    /\ db_proc.pc = "to_sql"
    /\ Len(db_proc.txn) = Len(db_proc.df)
    /\ \E raises \in BOOLEAN :
         IF raises
         THEN /\ db' = rollback(db, db_proc.txn)
              /\ db_proc' = LoaderFails([db_proc EXCEPT !.txn = <<>>,
                                                        !.undone = Len(db_proc.txn)],
                                        "caught")
         ELSE /\ db' = commit(db, db_proc.txn)
              /\ db_proc' = LoaderEnds([db_proc EXCEPT !.txn = <<>>,
                                                       !.commits = @ + 1],
                                       "ok")
    /\ UNCHANGED <<raw, consolidated_csv, nDownloads, pc, job,
                   errors_log, schedOn, skipped, timerJobs, base, ds, etl_proc>>
    /\ UNCHANGED apart

NextLoader ==
    \/ CreateDatabase
    \/ Connect
    \/ ReadCsv
    \/ InsertRow
    \/ Commit

SpecLoader == InitLoader /\ [][NextLoader]_vars

\* One run of db_conversion.py on an accumulation whose header line has the
\* columns of cols only (a file that was written or edited by other means
\* than etl.py, which writes every column): at least one expected column is
\* in it.
InitSchema ==
    /\ raw = {}
    /\ \E T \in SUBSET Files : \E U \in SUBSET (Files \ T) :
       \E cols \in (SUBSET expected_cols) \ {{}} :
         LET old == Consolidated(T, [exists |-> FALSE, header |-> 0, rows |-> <<>>])
             acc == Consolidated(U, old)
         IN  /\ consolidated_csv = [acc EXCEPT !.rows = select(@, cols)]
             /\ db = old.rows
    /\ nDownloads = 0
    /\ pc = [p \in Procs |-> "idle"]
    /\ job = [p \in Procs |-> NoJob]
    /\ errors_log = 0
    /\ schedOn = FALSE
    /\ skipped = 0
    /\ timerJobs = 0
    /\ base = NoBase
    /\ ds = NoDataset
    /\ etl_proc = EtlOff
    /\ db_proc = [LoaderStart EXCEPT !.before = db]
    /\ ApartOff

SpecSchema == InitSchema /\ [][NextLoader]_vars

\* ------------------------------------------ the loader, one run after another
\* db_conversion.py is run again on the same accumulation and the same
\* database (the next job's load stage with no new input in between).
LoaderAgain ==
    /\ db_proc.pc = "done"
    /\ db_proc.run < MaxLoaderRuns
    /\ db_proc' = [LoaderStart EXCEPT !.before = db, !.run = db_proc.run + 1]
    /\ UNCHANGED <<raw, consolidated_csv, db, nDownloads, pc, job,
                   errors_log, schedOn, skipped, timerJobs, base, ds, etl_proc>>
    /\ UNCHANGED apart

NextReload ==
    \/ NextLoader
    \/ LoaderAgain

SpecReload == InitSchema /\ [][NextReload]_vars

\* ---------------------------------------- the load stage, the loader followed
\* The startup job is at step 3 of run_etl_and_load; the accumulation is
\* absent, or holds the rows of A.nc; the table is empty or holds rows of an
\* earlier time.
InitLoadStage ==
    /\ raw \in SUBSET {"A.nc", "B.nc"}
    /\ \E T \in SUBSET {"A.nc"} : \E U \in SUBSET {"B.nc"} :
         LET none == [exists |-> FALSE, header |-> 0, rows |-> <<>>]
         IN  /\ consolidated_csv = Consolidated(T, none)
             /\ db = Consolidated(U, none).rows
    /\ nDownloads = 0
    /\ pc = [p \in Procs |-> IF p = MainThread THEN "load" ELSE "idle"]
    /\ job = [p \in Procs |->
                IF p = MainThread
                THEN [NoJob EXCEPT !.status = "Running",
                                   !.stages = <<"inspect", "etl", "sleep", "load">>]
                ELSE NoJob]
    /\ errors_log = 0
    /\ schedOn = TRUE
    /\ skipped = 0
    /\ timerJobs = 0
    /\ base = NoBase
    /\ ds = NoDataset
    /\ etl_proc = EtlOff
    /\ db_proc = LoaderOff
    /\ ApartOff

\* Step 3 of run_etl_and_load: subprocess.run([python, db_conversion.py])
\* starts the loader.
LaunchLoader(p) ==
    /\ pc[p] = "load"
    /\ db_proc.pc = "off"
    /\ db_proc' = [LoaderStart EXCEPT !.before = db]
    /\ UNCHANGED <<raw, consolidated_csv, db, nDownloads, pc, job,
                   errors_log, schedOn, skipped, timerJobs, base, ds, etl_proc>>
    /\ UNCHANGED apart

\* The loader has ended: subprocess.run returns, and a non-zero return code
\* (an exception that left insert_data_from_csv) raises RuntimeError.
LoaderReturns(p) ==
    /\ pc[p] = "load"
    /\ db_proc.pc = "done"
    /\ LET returncode == IF db_proc.result = "crash" THEN 1 ELSE 0
           j == [job[p] EXCEPT !.db_rc = returncode, !.load_result = db_proc.result]
       IN  IF Raises(returncode) THEN Fail(p, j) ELSE Advance(p, "load", j)
    /\ UNCHANGED <<raw, consolidated_csv, db, nDownloads,
                   schedOn, timerJobs, base>>
    /\ UNCHANGED inside
    /\ UNCHANGED apart

NextLoadStage ==
    \/ LaunchLoader(MainThread)
    \/ NextLoader
    \/ LoaderReturns(MainThread)
    \/ Cleanup(MainThread)

SpecLoadStage == InitLoadStage /\ [][NextLoadStage]_vars

\* ------------------------------------------- the query-serving component
\* sample_data of create_sample_data: N_PROF, N_LEVELS and SOURCE_FILE of
\* its five rows.
sample_data ==
    <<Row("D20250922_prof_0.nc", 1, 150), Row("D20250923_prof_0.nc", 2, 200),
      Row("R20250921_prof_0.nc", 3, 180), Row("R20250922_prof_0.nc", 4, 220),
      Row("D20250924_prof_0.nc", 5, 190)>>

\* A helper that inserts the sample rows whatever the table holds.
insert_sample_always(table) == table \o sample_data

\* if count == 0: cursor.executemany(INSERT ...); conn.commit()
insert_sample_if_empty(table) ==
    IF Len(table) = 0 THEN table \o sample_data ELSE table

\* The keys of intents in analyze_user_intent.
Intents ==
    {"data_summary", "temperature_query", "salinity_query", "location_query",
     "pressure_query", "profile_query", "source_query", "range_query",
     "visualization", "count_query"}

\* What analyze_user_intent returns, as far as the generated statement
\* depends on it: the intents; the comparison the where clause takes (the
\* first of >, <, = among the operators when the message has a number, else
\* none); the proximity flag that applies (with a number in the message).
Analyses ==
    {a \in [intents : SUBSET Intents, operator : {"none", ">", "<", "="},
            near : {"none", "latitude", "longitude"}] :
        /\ Cardinality(a.intents) <= MaxIntents
        /\ a.near # "none" => "location_query" \in a.intents}

\* " LIMIT 1000"
limit == 1000

\* The condition generate_sql_query adds for a measurement column.
condition(column, a) ==
    IF a.operator = "none" THEN [column |-> column, test |-> "IS NOT NULL"]
    ELSE [column |-> column, test |-> a.operator]

\* generate_sql_query: SELECT * FROM profiles with one where condition for
\* each of the temperature, salinity, pressure, location and source intents,
\* ordered by the first of TEMP, PSAL, PRES that is asked for, LIMIT 1000.
generate_sql_query(a) ==
    [verb  |-> "SELECT",
     shape |-> "rows",
     where |->
        {condition("TEMP", a) : x \in {"temperature_query"} \cap a.intents}
        \cup {condition("PSAL", a) : x \in {"salinity_query"} \cap a.intents}
        \cup {condition("PRES", a) : x \in {"pressure_query"} \cap a.intents}
        \cup {[column |-> IF a.near = "longitude" THEN "LONGITUDE"
                          ELSE IF a.near = "latitude" THEN "LATITUDE"
                          ELSE "LATITUDE, LONGITUDE",
               test |-> IF a.near = "none" THEN "IS NOT NULL" ELSE "ABS <= 1.0"] :
                  x \in {"location_query"} \cap a.intents}
        \cup {[column |-> "SOURCE_FILE", test |-> "IS NOT NULL"] :
                  x \in {"source_query"} \cap a.intents},
     order |-> IF "temperature_query" \in a.intents THEN "TEMP"
               ELSE IF "salinity_query" \in a.intents THEN "PSAL"
               ELSE IF "pressure_query" \in a.intents THEN "PRES"
               ELSE "none",
     limit |-> limit]

\* generate_summary_query: one of five aggregate SELECT statements.
generate_summary_query(a) ==
    [NoQuery EXCEPT
        !.verb = "SELECT",
        !.shape =
            IF "data_summary" \in a.intents THEN "summary"
            ELSE IF "count_query" \in a.intents THEN "total"
            ELSE IF {"range_query", "salinity_query"} \subseteq a.intents
                 THEN "salinity range"
            ELSE IF {"range_query", "temperature_query"} \subseteq a.intents
                 THEN "temperature range"
            ELSE IF "range_query" \in a.intents THEN "ranges"
            ELSE "total"]

\* The statement process_user_input generates.
generate(a) ==
    IF a.intents \cap {"data_summary", "range_query", "count_query"} # {}
    THEN generate_summary_query(a)
    ELSE generate_sql_query(a)

\* The analyses by the statement they lead to.
Statements == {generate(a) : a \in Analyses}

\* The where clause compares a measurement with a number of the message.
compared(query) == \E c \in query.where : c.test # "IS NOT NULL"

\* cursor.execute(query); cursor.fetchall(): an aggregate gives one row (kept
\* as the number of rows it counted); SELECT * gives the rows that meet the
\* where clause, at most limit of them.  The measurement columns are not
\* in the rows of the model: a comparison on one of them is met by all rows
\* (hit) or by none.  A statement that is not a SELECT changes nothing the
\* connection keeps: execute_query never commits.
fetchall(query, table, hit) ==
    IF query.verb # "SELECT" THEN <<>>
    ELSE IF query.shape # "rows" THEN <<[total |-> Len(table)]>>
    ELSE LET rows == IF compared(query) /\ ~hit THEN <<>> ELSE table
         IN  SubSeq(rows, 1, IF Len(rows) < query.limit THEN Len(rows)
                             ELSE query.limit)

\* A result whose row_count is the size of the table.
result_counting_table(rows, cols, table) ==
    [success |-> TRUE, error |-> "none", data |-> rows, columns |-> cols,
     row_count |-> Len(table)]

\* return {'success': True, 'data': results, 'columns': columns,
\*         'row_count': len(results)}
result_of(rows, cols, table) ==
    [success |-> TRUE, error |-> "none", data |-> rows, columns |-> cols,
     row_count |-> Len(rows)]

\* execute_query(query): everything from get_connection on is in the try;
\* fails: a statement raises (database is locked, no such table, ...), which
\* is logged and answered.
execute_query(query, table, hit, fails) ==
    IF fails
    THEN [success |-> FALSE, error |-> "str(e)", data |-> <<>>, columns |-> {},
          row_count |-> 0]
    ELSE LET rows == fetchall(query, table, hit)
             cols == IF query.verb # "SELECT" THEN {}
                     ELSE IF query.shape = "rows" THEN {"id"} \cup expected_cols
                     ELSE {query.shape}
         IN  result_of(rows, cols, table)

\* The query-serving component next to one run of the loader: A.nc may have
\* been loaded earlier, B.nc has been consolidated since.
InitServe ==
    /\ raw = {}
    /\ \E T \in SUBSET {"A.nc"} : \E U \in {{"B.nc"}} :
         LET old == Consolidated(T, [exists |-> FALSE, header |-> 0, rows |-> <<>>])
         IN  /\ consolidated_csv = Consolidated(U, old)
             /\ db = old.rows
    /\ nDownloads = 0
    /\ pc = [p \in Procs |-> "idle"]
    /\ job = [p \in Procs |-> NoJob]
    /\ errors_log = 0
    /\ schedOn = FALSE
    /\ skipped = 0
    /\ timerJobs = 0
    /\ base = NoBase
    /\ ds = NoDataset
    /\ etl_proc = EtlOff
    /\ db_proc = [LoaderStart EXCEPT !.before = db]
    /\ ApartOff

\* The stores are left alone by an operation of the component.
ServeFrame ==
    /\ UNCHANGED <<raw, consolidated_csv, nDownloads, pc, job,
                   errors_log, schedOn, skipped, timerJobs, base,
                   timer, process, sweep, persisted>>
    /\ UNCHANGED inside

\* DatabaseManager.create_sample_data(): CREATE TABLE IF NOT EXISTS, SELECT
\* COUNT(*), the insert of the sample rows when the count is 0, return count.
\* raises: a statement fails (nothing is caught here); the insert cannot get
\* the write lock while the loader's transaction holds rows.
CreateSampleData ==
    /\ \E raises \in BOOLEAN :
         IF raises \/ (Len(db) = 0 /\ db_proc.txn # <<>>)
         THEN /\ qs' = [QsOff EXCEPT !.op = "create_sample_data", !.raised = TRUE]
              /\ UNCHANGED db
         ELSE /\ qs' = [QsOff EXCEPT !.op = "create_sample_data",
                                     !.returned = Len(db), !.success = TRUE]
              /\ db' = insert_sample_if_empty(db)
    /\ ServeFrame

\* db.execute_query("SELECT COUNT(*) as count FROM profiles") (test_database).
ExecuteQuery ==
    /\ \E fails \in BOOLEAN :
         LET query == [NoQuery EXCEPT !.verb = "SELECT", !.shape = "count"]
             result == execute_query(query, db, TRUE, fails)
         IN  qs' = [QsOff EXCEPT !.op = "execute_query", !.query = query,
                                 !.result = result, !.success = result.success]
    /\ UNCHANGED db
    /\ ServeFrame

\* An answer whose success entry is that of the query's result.
answer_success_of_result(result) == result.success

\* 'success': True in the answer of process_user_input's try block.
answer_success(result) == TRUE

\* AIChatbot.process_user_input(user_input), called by handler op: the
\* statement generated from the analysis a of the message is executed; the
\* answer has success True whatever execute_query returned.  raises: a
\* statement of the try block raises (a message that is not a string), which
\* is logged and answered with success False.
process_user_input(op, a, query) ==
    /\ \E hit \in IF compared(query) THEN BOOLEAN ELSE {TRUE},
          fails \in BOOLEAN, raises \in BOOLEAN :
         LET result == execute_query(query, db, hit, fails)
         IN  qs' = IF raises
                   THEN [QsOff EXCEPT !.op = op, !.caught = TRUE]
                   ELSE [QsOff EXCEPT !.op = op, !.analysis = a, !.query = query,
                                      !.result = result,
                                      !.success = answer_success(result)]
    /\ UNCHANGED db
    /\ ServeFrame

\* handle_chat: a message goes to process_user_input; an empty one is
\* answered with an error.
HandleChat ==
    \/ \E query \in Statements :
          process_user_input("handle_chat", NoAnalysis, query)
    \/ /\ qs' = [QsOff EXCEPT !.op = "handle_chat"]
       /\ UNCHANGED db
       /\ ServeFrame

\* handle_stats: process_user_input("Show me a summary of the data"), whose
\* keywords are those of data_summary and visualization.
HandleStats ==
    process_user_input("handle_stats", NoAnalysis,
        generate([intents |-> {"data_summary", "visualization"},
                  operator |-> "none", near |-> "none"]))

NextQuery ==
    \/ CreateSampleData
    \/ ExecuteQuery
    \/ HandleChat
    \/ HandleStats

NextServe ==
    \/ NextQuery
    \/ NextLoader

SpecServe == InitServe /\ [][NextServe]_vars

\* The component on its own, on a table that is empty or holds the rows of
\* loaded files; no run of the loader is under way.
InitQuery ==
    /\ raw = {}
    /\ \E T \in SUBSET {"A.nc", "B.nc"} :
         LET csv == Consolidated(T, [exists |-> FALSE, header |-> 0, rows |-> <<>>])
         IN  /\ consolidated_csv = csv
             /\ db = csv.rows
    /\ nDownloads = 0
    /\ pc = [p \in Procs |-> "idle"]
    /\ job = [p \in Procs |-> NoJob]
    /\ errors_log = 0
    /\ schedOn = FALSE
    /\ skipped = 0
    /\ timerJobs = 0
    /\ base = NoBase
    /\ ds = NoDataset
    /\ etl_proc = EtlOff
    /\ db_proc = LoaderOff
    /\ ApartOff

SpecQuery == InitQuery /\ [][NextQuery]_vars

\* chatbot.process_user_input(query) (test_chatbot), followed from the
\* analysis of the message on: one call on each table and each analysis (a
\* call leaves nothing behind that a later call reads but the table).
ProcessUserInput ==
    /\ qs = QsOff
    /\ \E a \in Analyses : process_user_input("process_user_input", a, generate(a))

SpecChat == InitQuery /\ [][ProcessUserInput]_vars

\* ================================================================== claims
IsPrefix(s, t) == Len(s) <= Len(t) /\ SubSeq(t, 1, Len(s)) = s

AllRunning == {p \in Procs : Running(p)}

\* C1: a source file that already has rows in table profiles never gets
\* further rows: no step changes the number of rows whose SOURCE_FILE is F
\* once that number is positive.
C1_LoaderDedup ==
    [][\A f \in Files : CountSrc(db, f) > 0 => CountSrc(db', f) = CountSrc(db, f)]_vars

\* C2: at most one execution of fetch_and_update_job is in progress, the
\* startup job on the main thread and the timer's jobs counted together.
C2_JobsNeverOverlap == Cardinality(AllRunning) <= 1

\* C3: a job whose Load stage failed (an exception caught inside
\* insert_data_from_csv, or a crash of the loader) is Failed, has its line in
\* the error log, and never reaches the Cleanup stage.
C3_LoadFailureFailsJob ==
    \A p \in Procs :
        job[p].load_result \in {"caught", "crash"} =>
            /\ job[p].status = "Failed"
            /\ pc[p] = "idle"
            /\ errors_log >= 1
            /\ \A i \in 1..Len(job[p].stages) : job[p].stages[i] # "cleanup"

\* C4: a raw file is deleted only when rows with its SOURCE_FILE are in table
\* profiles: every step that removes a name from the raw directory removes a
\* name the table already holds.
C4_DeletedOnlyIfLoaded ==
    [][\A f \in raw \ raw' : f \in Sources(db)]_vars

\* C5: once a job has succeeded with no raw file left to consolidate, and as
\* long as no file arrives, further pipeline runs add no row to table
\* profiles, add no row to the accumulation and delete no file.
C5_Idempotence ==
    base.valid =>
        /\ Len(db) = base.db
        /\ Len(consolidated_csv.rows) = base.csv
        /\ base.deleted = 0

\* C6: a timer fire during a running timer-started job is dropped and starts
\* nothing: the dropped fire changes no thread and no job, a pool thread
\* begins a job only in a fire that finds no instance running, and no two
\* instances ever run together.
C6_TickWhileRunningDropped ==
    [][/\ skipped' = skipped + 1 =>
            (pc' = pc /\ job' = job /\ timerJobs' = timerJobs)
       /\ timerJobs' # timerJobs =>
            (Instances = 0 /\ timerJobs' = timerJobs + 1)
       /\ (\E w \in Workers : ~Running(w) /\ pc'[w] \in Stages) =>
            timerJobs' = timerJobs + 1
       /\ Cardinality({w \in Workers : pc'[w] \in Stages}) <= 1]_vars

\* Two fires were dropped during the second job the timer started, which is
\* in its last stage.
C6_Witness ==
    /\ skipped = 2
    /\ timerJobs = 2
    /\ \E w \in Workers : pc[w] = "cleanup"

\* C7: a job whose ETL or loader subprocess returned a non-zero code is
\* Failed, has appended one line to errors.log, has started no stage after
\* the failing one, and its thread is idle.
C7_StageFailureFailsJob ==
    \A p \in Procs :
        (job[p].etl_rc # 0 \/ job[p].db_rc # 0) =>
            /\ job[p].status = "Failed"
            /\ pc[p] = "idle"
            /\ job[p].error_lines = 1
            /\ errors_log >= 1
            /\ job[p].stages =
                 IF job[p].etl_rc # 0 THEN SubSeq(StageOrder, 1, 2)
                 ELSE SubSeq(StageOrder, 1, 4)

\* One job failed in its ETL stage and another in its Load stage.
C7_Witness ==
    \E p, q \in Procs :
        /\ job[p].etl_rc # 0 /\ job[p].status = "Failed"
        /\ job[q].db_rc # 0 /\ job[q].status = "Failed"
        /\ errors_log = 2

\* C8: the stages a job has started are a prefix of inspect, ETL, delay, Load,
\* Cleanup (so each is started once, after all before it), and the stage in
\* flight is the last one started.
C8_StagesInOrder ==
    \A p \in Procs :
        /\ IsPrefix(job[p].stages, StageOrder)
        /\ Running(p) => job[p].stages[Len(job[p].stages)] = pc[p]

\* A job went through all five stages.
C8_Witness ==
    \E p \in Procs : job[p].status = "Succeeded" /\ job[p].stages = StageOrder

\* C9: after a Consolidator run, every file of the batch whose extraction
\* raised nothing has all its rows in the accumulation, whichever files of the
\* batch failed.
C9_PartialFailureIsolation ==
    \A p \in Procs :
        \A f \in job[p].clean_files :
            ExpectedRows(f) \subseteq RowSet(consolidated_csv.rows)

\* B failed in a batch of A, B and C, and the run went on to the delay.
C9_Witness ==
    \E p \in Procs :
        /\ pc[p] = "sleep"
        /\ job[p].new_files = Files
        /\ job[p].clean_files = {"A.nc", "C.nc"}
        /\ "B.nc" \notin Sources(consolidated_csv.rows)

CountProf(rows, f, p) ==
    Cardinality({i \in 1..Len(rows) : rows[i].SOURCE_FILE = f /\ rows[i].N_PROF = p})

\* Every measurement variable of the file is absent or has the Argo layout.
WellFormed(d) == \A v \in LevelVarSet : d.vars[v] \in {"absent", "PL"}

\* The length of the pressure array of a profile of d, zero when PRES is
\* absent.
PresLen(d) == IF d.vars["PRES"] = "PL" THEN d.N_LEVELS ELSE 0

\* C11: whichever of the six per-level variables a readable file lacks, no
\* profile of it raises or is skipped, and each profile that was processed
\* has as many rows in the accumulation as its pressure array is long (none
\* when PRES is absent).
C11_MissingFieldsNeverFail ==
    \A q \in DOMAIN etl_proc :
        (WellFormed(ds) /\ etl_proc[q].opened /\ etl_proc[q].faults = 0) =>
            /\ etl_proc[q].errors = 0
            /\ etl_proc[q].raised = {}
            /\ etl_proc[q].no_data = {}
            /\ \A p \in 0..(etl_proc[q].profile_idx - 1) :
                  CountProf(consolidated_csv.rows, XFile, p) = PresLen(ds)

\* C12: when the file was opened and the run is through with it, every
\* profile index whose processing raised was skipped with a warning (no error
\* line for the file), and every other profile index of the file has been
\* extracted and appended.
C12_ProfileErrorIsolation ==
    \A q \in DOMAIN etl_proc :
        (etl_proc[q].pc = "done" /\ etl_proc[q].opened) =>
            LET failed == etl_proc[q].no_data \cup etl_proc[q].raised
            IN  /\ etl_proc[q].errors = 0
                /\ etl_proc[q].warnings = Cardinality(failed)
                /\ \A p \in 0..(etl_proc[q].n_prof - 1) :
                      p \notin failed =>
                          /\ p \in etl_proc[q].saved
                          /\ CountProf(consolidated_csv.rows, XFile, p) =
                                Len(extract_profile(ds, p).N_LEVELS)

\* C13: both stores are append-only: every step leaves the rows the
\* accumulation and table profiles held in place, unchanged, at the front of
\* what they hold afterwards, so no source file's row count goes down.
C13_AppendOnly ==
    [][/\ IsPrefix(consolidated_csv.rows, consolidated_csv'.rows)
       /\ IsPrefix(db, db')
       /\ \A f \in Files \cup {XFile} :
             /\ CountSrc(consolidated_csv'.rows, f) >= CountSrc(consolidated_csv.rows, f)
             /\ CountSrc(db', f) >= CountSrc(db, f)]_vars

\* C14: when a run of the loader has returned without an exception, every
\* source file of the accumulation has rows in table profiles; each source
\* file the table did not have before the run has all its accumulation rows
\* in it, appended behind the old rows by one commit; and when the
\* accumulation had no such source file the run committed nothing and left
\* the table as it was.
C14_LoaderCompleteness ==
    (db_proc.pc = "done" /\ db_proc.result = "ok") =>
        LET fresh == Sources(consolidated_csv.rows) \ Sources(db_proc.before)
        IN  /\ Sources(consolidated_csv.rows) \subseteq Sources(db)
            /\ IsPrefix(db_proc.before, db)
            /\ \A f \in fresh : CountSrc(db, f) = CountSrc(consolidated_csv.rows, f)
            /\ db_proc.commits = IF fresh = {} THEN 0 ELSE 1
            /\ fresh = {} => db = db_proc.before

\* A run loaded a new source file into a table that had another one.
C14_Witness ==
    /\ db_proc.pc = "done"
    /\ db_proc.result = "ok"
    /\ db_proc.commits = 1
    /\ db_proc.before # <<>>
    /\ Sources(db) \ Sources(db_proc.before) # {}

\* C15: whatever a reader of table profiles sees during and after a run of
\* the loader is the table as the run found it, or that table with every row
\* the run inserts; a run that failed has left the table as it found it, with
\* no insert of its transaction kept.
C15_LoaderAtomicity ==
    db_proc.pc # "off" =>
        /\ db \in {db_proc.before, db_proc.before \o db_proc.df}
        /\ db_proc.result \in {"caught", "crash"} => db = db_proc.before
        /\ db_proc.pc = "done" => db_proc.txn = <<>>

\* An insert failed after two rows had gone into the transaction.
C15_Witness ==
    /\ db_proc.result = "caught"
    /\ db_proc.undone >= 2
    /\ db = db_proc.before

\* The length of the pressure array of profile p of file f.
LevelCount(f, p) ==
    IF f = XFile THEN Len(extract_profile(ds, p).N_LEVELS) ELSE Profiles(f)[p + 1]

\* The N_LEVELS values the rows of profile p of file f carry.
LevelsOf(rows, f, p) ==
    {rows[i].N_LEVELS : i \in {j \in 1..Len(rows) :
                                 rows[j].SOURCE_FILE = f /\ rows[j].N_PROF = p}}

\* C16: in the accumulation and in table profiles, the rows of every
\* (SOURCE_FILE, N_PROF) pair carry exactly the N_LEVELS values 0..k-1, k
\* being the length of the pressure array of that profile of that file.
C16_LevelCountConsistency ==
    \A rows \in {consolidated_csv.rows, db} :
        \A i \in 1..Len(rows) :
            LevelsOf(rows, rows[i].SOURCE_FILE, rows[i].N_PROF) =
                0..(LevelCount(rows[i].SOURCE_FILE, rows[i].N_PROF) - 1)

\* Both profiles of A.nc, of three levels and of two, are in both stores.
C16_Witness ==
    /\ ExpectedRows("A.nc") \subseteq RowSet(consolidated_csv.rows)
    /\ ExpectedRows("A.nc") \subseteq RowSet(db)
    /\ LevelsOf(db, "A.nc", 0) = {0, 1, 2}
    /\ LevelsOf(db, "A.nc", 1) = {0, 1}

\* The sum of the lengths of the first n entries of a file's profile list.
RECURSIVE SumLevels(_, _)
SumLevels(levels, n) == IF n = 0 THEN 0 ELSE levels[n] + SumLevels(levels, n - 1)

\* The sum of the level counts of all profiles of the files of S.
RECURSIVE LevelSum(_)
LevelSum(S) ==
    IF S = {} THEN 0
    ELSE LET f == CHOOSE x \in S : TRUE
         IN  SumLevels(Profiles(f), n_prof(f)) + LevelSum(S \ {f})

\* C18: when the startup job, run on empty stores with A.nc and B.nc in the
\* raw directory and nothing failing, has succeeded (and no other job was
\* started and no file arrived), the accumulation has as many rows as the
\* profiles of A.nc and B.nc have levels, table profiles has as many, and
\* the raw directory is empty.
C18_OneRunRowCounts ==
    (job[MainThread].status = "Succeeded" /\ timerJobs = 0 /\ nDownloads = 0) =>
        /\ Len(consolidated_csv.rows) = LevelSum(ScenarioFiles)
        /\ Len(db) = LevelSum(ScenarioFiles)
        /\ RowSet(db) = ExpectedRows("A.nc") \cup ExpectedRows("B.nc")
        /\ raw = {}

\* The startup job has succeeded and both stores hold the rows of A.nc and
\* B.nc.
C18_Witness ==
    /\ job[MainThread].status = "Succeeded"
    /\ job[MainThread].stages = StageOrder
    /\ timerJobs = 0
    /\ nDownloads = 0
    /\ Len(db) = 9
    /\ Len(consolidated_csv.rows) = 9
    /\ raw = {}

\* C19: a thread whose job ended Failed is idle again and the scheduler is
\* still on; a thread that leaves idle starts a job that is Running in its
\* first stage with nothing of the earlier job in it; and while jobs have
\* failed the timer goes on starting jobs (up to the number of jobs followed).
C19_FailedJobKeepsScheduler ==
    /\ [](\A p \in Procs : job[p].status = "Failed" => (pc[p] = "idle" /\ schedOn))
    /\ [][\A w \in Workers :
            (pc[w] = "idle" /\ pc'[w] # "idle") =>
                /\ pc'[w] = "inspect"
                /\ job'[w] = [NoJob EXCEPT !.status = "Running",
                                           !.stages = <<"inspect">>]
                /\ timerJobs' = timerJobs + 1]_vars
    /\ \A n \in 0..(MaxFires - 1) :
          (timerJobs = n /\ \E p \in Procs : job[p].status = "Failed")
              ~> (timerJobs > n)

\* The startup job and the timer's first job have failed, and the timer's
\* second job is in its first stage.
C19_Witness ==
    /\ job[MainThread].status = "Failed"
    /\ errors_log = 2
    /\ timerJobs = 2
    /\ \E w \in Workers : pc[w] = "inspect" /\ job[w].stages = <<"inspect">>

\* C20: the step that starts the scheduler puts the main thread into the
\* first stage of a job before any timer fire has started or dropped a job;
\* the main thread starts no second job; the timer fires only once that is
\* done.
C20_StartupJobFirst ==
    [][/\ pc[MainThread] = "boot" =>
            /\ ~schedOn /\ timerJobs = 0 /\ skipped = 0
            /\ pc'[MainThread] = "inspect"
            /\ job'[MainThread].status = "Running"
            /\ job'[MainThread].stages = <<"inspect">>
            /\ timerJobs' = 0 /\ skipped' = 0
            /\ \A w \in Workers : pc'[w] = "idle"
       /\ (pc[MainThread] \notin {"boot", "inspect"}) => pc'[MainThread] # "inspect"
       /\ pc'[MainThread] # "boot"
       /\ timerJobs' # timerJobs => job[MainThread].status # "None"]_vars

\* The timer's first job was started while the startup job was running.
C20_Witness ==
    /\ job[MainThread].status = "Running"
    /\ pc[MainThread] = "etl"
    /\ timerJobs = 1
    /\ \E w \in Workers : pc[w] = "inspect"

\* The positions of LevelVars whose variable is in d with two dimensions or
\* more.
TwoDims(d) == {i \in 1..Len(LevelVars) : d.vars[LevelVars[i]] \in {"PL", "LP"}}

\* C17: the profile count of an opened file is the length of JULD when JULD
\* is in the file, else the leading dimension of the first of the six
\* variables that is present with two dimensions or more, else zero, and in
\* this last case a warning has been logged.
C17_ProfileCount ==
    \A q \in DOMAIN etl_proc : etl_proc[q].opened =>
        /\ etl_proc[q].n_prof =
             IF ds.JULD THEN ds.N_PROF
             ELSE IF TwoDims(ds) = {} THEN 0
             ELSE LET i == CHOOSE k \in TwoDims(ds) : \A m \in TwoDims(ds) : k <= m
                  IN  IF ds.vars[LevelVars[i]] = "PL" THEN ds.N_PROF ELSE ds.N_LEVELS
        /\ (~ds.JULD /\ TwoDims(ds) = {}) => etl_proc[q].warnings >= 1

\* C21: a wake-up of the scheduler thread that finds run times due, and no
\* instance running, calls the job function exactly once when the latest of
\* them is at most misfire_grace_time seconds old (the earlier ones are
\* coalesced into it), and starts one job with it; when the latest is older,
\* no call is made and no thread or job changes.  No wake-up makes more than
\* one call.
C21_MissedTicks ==
    [][(timer' # timer \/ timerJobs' # timerJobs) =>
          /\ timer'.runs <= 1
          /\ (timer'.late <= misfire_grace_time /\ Instances < max_instances) =>
                /\ timer'.runs = 1
                /\ timerJobs' = timerJobs + 1
                /\ \E w \in Workers : pc[w] = "idle" /\ pc'[w] = "inspect"
          /\ timer'.late > misfire_grace_time =>
                /\ timer'.runs = 0
                /\ pc' = pc /\ job' = job /\ timerJobs' = timerJobs]_vars

\* With a one-minute interval the scheduler thread came to six run times at
\* once, the latest one second old, and one job was started for them.
C21_Witness ==
    /\ timer.interval = 60
    /\ timer.pending = 6
    /\ timer.late \in 1..misfire_grace_time
    /\ timer.runs = 1
    /\ timerJobs >= 1
    /\ \E w \in Workers : pc[w] = "inspect"

\* A run time that was 301 seconds old was dropped.
C21_WitnessDropped ==
    /\ timer.late > misfire_grace_time
    /\ timer.pending = 1
    /\ timer.runs = 0
    /\ timerJobs = 0
    /\ schedOn

\* C22: once the interrupt signal has come no job is started; a thread
\* leaves the stage it is in only because the stage has returned or raised
\* (it goes on to the next stage, or to idle with the job Succeeded or
\* Failed), never because the stage was cut short; and the process has
\* exited only when no thread is in a stage.
C22_Cancellation ==
    [][/\ process # "up" =>
            /\ timerJobs' = timerJobs
            /\ \A p \in Procs : ~Running(p) => ~(pc'[p] \in Stages)
       /\ \A p \in Procs :
            (Running(p) /\ pc'[p] # pc[p]) =>
                \/ pc'[p] = NextStage(pc[p]) /\ pc'[p] \in Stages
                \/ pc'[p] = "idle" /\ job'[p].status \in {"Succeeded", "Failed"}
       /\ process' = "exited" => \A p \in Procs : ~(pc'[p] \in Stages)]_vars

\* C23: when the cleanup sweep is over, each file whose unlink raised has
\* its warning in the log, every other file the sweep found is deleted,
\* whichever unlinks raised before or after it, and the job is Succeeded
\* with nothing in the error log (also when the sweep could not be started).
C23_CleanupSweepIsolation ==
    sweep.pc = "done" =>
        /\ sweep.listed =>
              /\ sweep.found = sweep.deleted \cup sweep.failed
              /\ raw = sweep.failed
              /\ sweep.warnings = Cardinality(sweep.failed)
        /\ \A p \in Procs : job[p].status # "None" =>
              /\ job[p].status = "Succeeded"
              /\ pc[p] = "idle"
              /\ job[p].error_lines = 0
        /\ errors_log = 0

\* The unlink of A.nc raised; B.nc and C.nc were deleted after it.
C23_Witness ==
    /\ sweep.pc = "done"
    /\ sweep.failed = {"A.nc"}
    /\ sweep.deleted = {"B.nc", "C.nc"}
    /\ raw = {"A.nc"}
    /\ job[MainThread].status = "Succeeded"

\* C24: a job whose loader returned exit code 0 goes on to the cleanup step,
\* whether or not the Load added a row to table profiles; the sweep that
\* could list the directory takes up every file that is in it, loaded or
\* not, and each file it takes up is gone after its unlink unless the unlink
\* raised; the sweep ends, and the job is Succeeded, only when all of them
\* were taken up.
C24_CleanupAfterLoad ==
    /\ [][\A p \in Procs :
            (pc[p] = "load" /\ pc'[p] # "load" /\ job'[p].db_rc = 0) =>
                /\ pc'[p] = "cleanup"
                /\ job'[p].stages = StageOrder]_vars
    /\ [][(sweep.pc = "glob" /\ sweep'.listed) => sweep'.found = raw]_vars
    /\ [][(sweep.pc = "unlink" /\ sweep' # sweep) =>
            LET f == Head(sweep.todo)
            IN  /\ f \in raw
                /\ f \notin raw' \/ f \in sweep'.failed]_vars
    /\ [](sweep.pc \in {"end", "done"} /\ sweep.listed =>
            sweep.found = sweep.deleted \cup sweep.failed)
    /\ [][\A p \in Procs :
            (pc[p] = "cleanup" /\ pc'[p] # "cleanup") =>
                /\ sweep.pc = "end" /\ sweep.todo = <<>>
                /\ job'[p].status = "Succeeded"]_vars

\* The timer's job found A.nc consolidated and loaded (the startup job's
\* sweep could not delete it): its Load added no row, and its sweep deleted
\* the file.
C24_Witness ==
    /\ \E w \in Workers :
         /\ job[w].status = "Succeeded"
         /\ job[w].load_result = "ok"
    /\ job[MainThread].status = "Succeeded"
    /\ db = Consolidated({"A.nc"}, [exists |-> FALSE, header |-> 0, rows |-> <<>>]).rows
    /\ sweep.pc = "done"
    /\ sweep.deleted = {"A.nc"}
    /\ raw = {}

\* C25: a run of the loader in which no statement failed for an outside
\* reason ends without an exception whatever expected columns the
\* accumulation lacks; when it had rows to load (a new source file, or no
\* SOURCE_FILE column to tell by) it has logged the missing columns in a
\* warning and has appended, in one commit, one row for each row of the
\* accumulation with the values of the columns that are there and NULL in
\* each missing column.
C25_SchemaMismatch ==
    (db_proc.pc = "done" /\ db_proc.faults = 0) =>
        LET cols  == columns(consolidated_csv.rows)
            added == SubSeq(db, Len(db_proc.before) + 1, Len(db))
            load  == \/ "SOURCE_FILE" \notin cols
                     \/ new_sources(consolidated_csv.rows, db_proc.before) # {}
        IN  /\ db_proc.result = "ok"
            /\ IsPrefix(db_proc.before, db)
            /\ (consolidated_csv.exists /\ load) =>
                  /\ db_proc.commits = 1
                  /\ db_proc.warnings = IF expected_cols \subseteq cols THEN 0 ELSE 1
                  /\ Len(added) = Len(consolidated_csv.rows)
                  /\ \A i \in 1..Len(added) :
                        /\ DOMAIN added[i] = cols
                        /\ \A c \in cols : added[i][c] = consolidated_csv.rows[i][c]

\* An accumulation without the N_LEVELS column was loaded into a table that
\* had rows: a warning, and rows with N_LEVELS NULL.
C25_Witness ==
    /\ db_proc.pc = "done"
    /\ db_proc.result = "ok"
    /\ db_proc.warnings = 1
    /\ db_proc.commits = 1
    /\ db_proc.before # <<>>
    /\ Len(db) > Len(db_proc.before)
    /\ DOMAIN db[Len(db)] = {"N_PROF", "SOURCE_FILE"}

\* C26: every step that changes table profiles is the commit of the loader,
\* and every statement the chatbot has generated is a SELECT.
C26_OnlyLoaderWrites ==
    /\ [][db' # db => (db_proc.pc = "to_sql" /\ db_proc'.commits = db_proc.commits + 1
                       /\ qs' = qs)]_vars
    /\ [](qs.query # NoQuery => qs.query.verb = "SELECT")

\* C27: when a job ends Failed, the rows the accumulation and table profiles
\* held when the job started are still there, in place and unchanged.
C27_FailedJobKeepsPersisted ==
    [][\A p \in Procs :
          job[p].status = "Running" /\ job'[p].status = "Failed"
          => /\ IsPrefix(persisted[p].csv, consolidated_csv'.rows)
             /\ IsPrefix(persisted[p].db, db')]_vars

\* C28: execute_query never raises; a failed query is answered with success
\* False, the error text, no data, no columns and row_count 0, and a query
\* that succeeded with row_count equal to the number of rows returned.
C28_QueryFailureTolerated ==
    qs.query # NoQuery
    => /\ ~qs.raised
       /\ ~qs.result.success
          => /\ qs.result.error # "none"
             /\ qs.result.data = <<>>
             /\ qs.result.columns = {}
             /\ qs.result.row_count = 0
       /\ qs.result.success => qs.result.row_count = Len(qs.result.data)

\* A comparison query of the chat handler failed on a table that has rows.
C28_Witness ==
    /\ qs.op = "handle_chat"
    /\ compared(qs.query)
    /\ Len(db) >= 2
    /\ ~qs.result.success
    /\ qs.result.error = "str(e)"
    /\ qs.result.row_count = 0

\* C30: a call of create_sample_data that returns gives back the number of
\* rows it found; it leaves a table that has rows as it is and puts the five
\* sample rows into an empty one, so that after one call or several on an
\* empty table the table holds exactly the five sample rows.
C30_SampleDataIdempotent ==
    /\ [][qs'.op = "create_sample_data" /\ qs' # qs /\ ~qs'.raised
          => /\ qs'.returned = Len(db)
             /\ Len(db) > 0 => db' = db
             /\ Len(db) = 0 => db' = sample_data]_vars
    /\ [](qs.op = "create_sample_data" /\ ~qs.raised
          => /\ qs.returned = 0 => db = sample_data /\ Len(db) = 5
             /\ qs.returned > 0 => Len(db) = qs.returned)

\* A second call on a store that was empty before the first: it found the
\* five sample rows and added nothing.
C30_Witness ==
    /\ qs.op = "create_sample_data"
    /\ ~qs.raised
    /\ qs.returned = 5
    /\ db = sample_data

\* C29: the accumulation, once it exists, has exactly one header line: the
\* write of a run that found no file creates it with the header and the
\* frame's rows, and the write of a run that found the file adds the
\* frame's rows behind the old ones and no header line.
C29_OneHeaderLine ==
    /\ [](consolidated_csv.exists => consolidated_csv.header = 1)
    /\ [][\A q \in DOMAIN etl_proc :
            /\ etl_proc[q].pc = "write"
            /\ etl_proc'[q] # etl_proc[q]
            /\ consolidated_csv' # consolidated_csv
            => IF etl_proc[q].append
               THEN /\ consolidated_csv.exists
                    /\ consolidated_csv'.header = consolidated_csv.header
                    /\ consolidated_csv'.rows =
                          consolidated_csv.rows \o etl_proc[q].df
               ELSE /\ consolidated_csv'.exists
                    /\ consolidated_csv'.header = 1
                    /\ consolidated_csv'.rows = etl_proc[q].df]_vars

\* A run that created the accumulation for its first profile has appended
\* the rows of its second.
C29_Witness ==
    /\ consolidated_csv.exists
    /\ consolidated_csv.header = 1
    /\ \E q \in DOMAIN etl_proc : etl_proc[q].saved = {0, 1}
    /\ Sources(consolidated_csv.rows) = {XFile}
    /\ Len(consolidated_csv.rows) >= 2

\* The intents that make process_user_input take the summary query.
SummaryIntents == {"data_summary", "range_query", "count_query"}

\* C31: a call of process_user_input in which nothing raised answers
\* success True, also when the query failed; it ran an aggregate statement
\* when the intents include data_summary, range_query or count_query, and
\* else the row-level SELECT, which ends in LIMIT 1000 and returns no more
\* rows than that.
C31_ChatbotAnswers ==
    qs.op = "process_user_input" /\ ~qs.caught
    => /\ qs.success
       /\ qs.query.verb = "SELECT"
       /\ qs.analysis.intents \cap SummaryIntents # {}
          => qs.query.shape \in {"summary", "total", "salinity range",
                                 "temperature range", "ranges"}
             /\ qs.query.limit = 0
       /\ qs.analysis.intents \cap SummaryIntents = {}
          => /\ qs.query.shape = "rows"
             /\ qs.query.limit = 1000
             /\ Len(qs.result.data) <= 1000

\* A threshold question on temperature was answered although its query
\* failed.
C31_Witness ==
    /\ qs.op = "process_user_input"
    /\ ~qs.caught
    /\ qs.analysis.intents = {"temperature_query", "profile_query"}
    /\ qs.analysis.operator = ">"
    /\ qs.query.shape = "rows"
    /\ ~qs.result.success
    /\ qs.success

C33_StoreWithinAccumulation ==
    /\ Sources(db) \subseteq Sources(consolidated_csv.rows)
    /\ \A f \in Files : CountSrc(db, f) <= CountSrc(consolidated_csv.rows, f)

\* C34: a run of the loader that ends without an exception leaves every
\* source file of the accumulation in table profiles, whether or not its raw
\* file still exists and whatever earlier loads did; no step takes a source
\* file out of the accumulation or out of the table.  So a file whose rows
\* have reached the accumulation is in the table from the next such run on.
C34_EventualLoad ==
    /\ [][\A p \in Procs :
            pc[p] = "load" /\ pc'[p] # "load" /\ job'[p].load_result = "ok"
            => Sources(consolidated_csv.rows) \subseteq Sources(db')]_vars
    /\ [][Sources(consolidated_csv.rows) \subseteq Sources(consolidated_csv'.rows)]_vars
    /\ [][Sources(db) \subseteq Sources(db')]_vars

\* The startup job's load failed inside the loader and its cleanup deleted
\* the raw files; the load of the timer's job then brought their rows in.
C34_Witness ==
    /\ job[MainThread].load_result = "caught"
    /\ job[MainThread].status = "Succeeded"
    /\ nDownloads = 0
    /\ raw = {}
    /\ pc[1] = "cleanup"
    /\ job[1].load_result = "ok"
    /\ Sources(consolidated_csv.rows) # {}
    /\ Sources(db) = Sources(consolidated_csv.rows)

\* The rows a step has put behind those the accumulation had.
Appended == SubSeq(consolidated_csv'.rows, Len(consolidated_csv.rows) + 1,
                   Len(consolidated_csv'.rows))

\* C35: a run of the Consolidator that finds an accumulation it cannot read,
\* or one without SOURCE_FILE column, takes no file as processed: it
\* extracts every raw file and appends their rows to the file as it is,
\* behind the rows the accumulation may have of the same files.
C35_UnreadableAccumulation ==
    [][\A p \in Procs :
          /\ pc[p] = "etl" /\ pc'[p] = "sleep"
          /\ consolidated_csv.exists
          /\ ~job'[p].acc_read \/ "SOURCE_FILE" \notin columns(consolidated_csv.rows)
          => /\ job'[p].acc_before = {}
             /\ job'[p].new_files = raw
             /\ IsPrefix(consolidated_csv.rows, consolidated_csv'.rows)
             /\ consolidated_csv'.header = consolidated_csv.header
             /\ Sources(Appended) \subseteq raw
             /\ \A f \in job'[p].clean_files :
                   CountSrc(Appended, f) = Cardinality(ExpectedRows(f))]_vars

\* A run that could not read the accumulation has added the rows of A.nc a
\* second time.
C35_Witness ==
    /\ pc[MainThread] = "sleep"
    /\ ~job[MainThread].acc_read
    /\ "A.nc" \in job[MainThread].clean_files
    /\ "SOURCE_FILE" \in columns(consolidated_csv.rows)
    /\ CountSrc(consolidated_csv.rows, "A.nc") = 2 * Cardinality(ExpectedRows("A.nc"))

\* C36: when the accumulation has no SOURCE_FILE column, a run of the loader
\* in which no statement failed for an outside reason makes no
\* deduplication check: whatever the table already holds (the same rows from
\* an earlier run included) it appends every row of the accumulation, each
\* with source_file NULL, so every further run with no new input adds the
\* rows once more.
C36_NoColumnNoDedup ==
    ( /\ db_proc.pc = "done"
      /\ db_proc.faults = 0
      /\ consolidated_csv.exists
      /\ "SOURCE_FILE" \notin columns(consolidated_csv.rows) ) =>
        /\ db_proc.result = "ok"
        /\ db = db_proc.before \o consolidated_csv.rows
        /\ \A i \in (Len(db_proc.before) + 1)..Len(db) :
              "SOURCE_FILE" \notin DOMAIN db[i]

\* The second run on the same accumulation of three rows without the
\* SOURCE_FILE column has ended: the table holds the rows of the first run
\* and the same rows again.
C36_Witness ==
    /\ db_proc.pc = "done"
    /\ db_proc.run = 2
    /\ db_proc.faults = 0
    /\ "SOURCE_FILE" \notin columns(consolidated_csv.rows)
    /\ Len(consolidated_csv.rows) >= 3
    /\ db_proc.before = consolidated_csv.rows
    /\ db = consolidated_csv.rows \o consolidated_csv.rows

\* C37: the inspection step does not hold the job up: whatever return code
\* the inspection ended with and whether or not it wrote to stderr, the
\* step that ends the inspection takes the job to Extract-and-consolidate,
\* still Running and with no error line logged; a job is never Failed with
\* the inspection as its last stage.
C37_InspectionNonBlocking ==
    /\ [][\A p \in Procs :
            (pc[p] = "inspect" /\ pc'[p] # "inspect") =>
                /\ pc'[p] = "etl"
                /\ job'[p].status = "Running"
                /\ job'[p].stages = Append(job[p].stages, "etl")
                /\ job'[p].error_lines = job[p].error_lines
                /\ errors_log' = errors_log]_vars
    /\ [](\A p \in Procs :
            (job[p].status = "Failed" /\ job[p].stages # <<>>) =>
                job[p].stages[Len(job[p].stages)] # "inspect")

\* The inspection of the timer's job ended with return code 1 and text on
\* stderr, and the job is at Extract-and-consolidate.
C37_Witness ==
    \E p \in Workers :
        /\ pc[p] = "etl"
        /\ job[p].status = "Running"
        /\ job[p].inspect_rc = 1
        /\ job[p].inspect_stderr

\* C38: when the accumulation does not exist, a run of the loader that
\* comes to look for it logs one warning and returns with no row written
\* and nothing committed; the load stage then ends without an error, the
\* job goes on to Cleanup, and it ends Succeeded with Cleanup as its last
\* stage.
C38_NoAccumulation ==
    /\ []((db_proc.pc = "done" /\ db_proc.faults = 0 /\ ~consolidated_csv.exists) =>
            /\ db_proc.result = "ok"
            /\ db_proc.warnings = 1
            /\ db_proc.commits = 0
            /\ db = db_proc.before)
    /\ [][\A p \in Procs :
            ( /\ pc[p] = "load" /\ pc'[p] # "load"
              /\ db_proc.faults = 0 /\ ~consolidated_csv.exists ) =>
                /\ pc'[p] = "cleanup"
                /\ job'[p].status = "Running"
                /\ job'[p].db_rc = 0
                /\ errors_log' = errors_log
                /\ db' = db]_vars
    /\ []((/\ pc[MainThread] = "idle"
           /\ db_proc.faults = 0 /\ ~consolidated_csv.exists) =>
            /\ job[MainThread].status = "Succeeded"
            /\ job[MainThread].stages[Len(job[MainThread].stages)] = "cleanup")

\* The job found no accumulation and a table with rows: the loader warned
\* and wrote nothing, and the job ended Succeeded after a Cleanup that
\* deleted the raw files.
C38_Witness ==
    /\ ~consolidated_csv.exists
    /\ db_proc.pc = "done"
    /\ db_proc.result = "ok"
    /\ db_proc.warnings = 1
    /\ db # <<>>
    /\ db = db_proc.before
    /\ job[MainThread].status = "Succeeded"
    /\ job[MainThread].stages = <<"inspect", "etl", "sleep", "load", "cleanup">>
    /\ raw = {}
====
